---- MODULE Spec2Model ----
(***************************************************************************)
(* The digest worker (apps/worker): the pipeline of one run (runOnce), the *)
(* D1 tables it writes, the provider cascade (summarizeWithAI), the retry  *)
(* loop under every provider call (fetchWithBackoff), article selection    *)
(* (rankItems) and the reset-seen admin endpoint.                          *)
(*                                                                         *)
(* Every await of runOnce is a point where another request of the worker   *)
(* may run; a run is therefore a process whose steps interleave with the   *)
(* steps of the other runs and of the reset-seen endpoint.                 *)
(***************************************************************************)
EXTENDS Integers, Sequences, FiniteSets, TLC

\* ------------------------------------------------------------------ bounds
\* Runs that may be started (crypto.randomUUID gives each its own run_id).
MaxRuns == 2
\* Articles the feeds can carry; article h has content_hash h.
NumArticles == 3
\* reset-seen requests the admin may issue.
MaxResets == 1
\* Articles of the large feed: more than the headlines of a fallback digest.
BigFeed == 14
MaxFeeds == 3
MaxConcurrency == 2
MaxItems == 3
MaxHours == 30
MaxQuery == 2
MaxLogCalls == 2
MaxClock == 2
MaxAppends == 3
FirstYear == 2021
LastYear == 2026
MaxFeedItems == 3
MaxLines == 3
MaxPick == 4

\* ------------------------------------------------------- program constants
\* fetchWithBackoff(input, init, attempts = 3, baseDelay = 500)
attempts == 3
\* parseInt(settings["max_articles_considered"] || "60", 10) || 60
DefaultMaxConsidered == 60
\* parseInt(settings["max_articles_for_ai"] || "25", 10) || 25
DefaultMaxForAi == 25
\* parseInt(settings["per_source_cap"] || "10", 10) || 10, clamped to 1..50
DefaultPerSourceCap == 10
MaxPerSourceCap == 50
\* fallbackHeadlines: items.slice(0, 12)
HeadlineLimit == 12
\* redactSecrets: /[A-Za-z0-9_\-]{20,}/g
RedactMinLen == 20
\* parseInt(settings["max_concurrency"] || "6", 10) || 6
DefaultMaxConcurrency == 6

RunIds == 1 .. MaxRuns

Max(a, b) == IF a >= b THEN a ELSE b
Min(a, b) == IF a <= b THEN a ELSE b

\* parseInt(settings[key] || "dflt", 10) || dflt. A numeric setting is <<>>
\* when it is unset (or not a number) and <<n>> when it is the number n: an
\* unset setting takes the default, and so does 0, which is falsy.
ParseIntOr(v, dflt) == IF v = <<>> THEN dflt ELSE IF v[1] = 0 THEN dflt ELSE v[1]

\* A JavaScript number: <<n>> is the number n, <<>> is NaN.
NaN == <<>>
Num(n) == <<n>>

RECURSIVE Concat(_)
\* rawItems.push(...f.items) over the feeds in order
Concat(ss) == IF ss = <<>> THEN <<>> ELSE Head(ss) \o Concat(Tail(ss))

Prefix(s, n) == SubSeq(s, 1, Min(Len(s), Max(n, 0)))

\* What array.splice(start) leaves in the array: the elements before start,
\* a negative start counting from the end of the array.
splice(s, start) ==
  SubSeq(s, 1, IF start < 0 THEN Max(Len(s) + start, 0) ELSE Min(start, Len(s)))

Range(s) == {s[i] : i \in 1 .. Len(s)}

\* --------------------------------------------------- the article universe
\* What normalizeAndHash yields for the items the feeds carry: the source is
\* the host of the canonical URL, hours is the age of published_at at the
\* time of the run, tokens stands for tokenizeTitle(title).
Source(h) == IF h % 2 = 1 THEN "a.example" ELSE "b.example"
Hours(h) == 2 * h
Tokens(h) == IF h <= 2 THEN {100, 101} ELSE {h}
Item(h) == [content_hash |-> h, source |-> Source(h), dated |-> TRUE,
            hours |-> Hours(h), tokens |-> Tokens(h), article_id |-> 0]

\* ------------------------------------------------------------- rankItems
\* jaccard(a, b) >= simThreshold (0.4), in integers: 5 * inter >= 2 * union
Similar(a, b) ==
  LET inter == Cardinality(a \cap b)
      union == Cardinality(a) + Cardinality(b) - inter
  IN  IF Cardinality(a) = 0 /\ Cardinality(b) = 0 THEN FALSE
      ELSE union # 0 /\ 5 * inter >= 2 * union

RECURSIVE Closure(_, _)
\* The indices united with the set c by the pairwise unite() calls.
Closure(items, c) ==
  LET more == {j \in 1 .. Len(items) :
                 \E i \in c : Similar(items[i].tokens, items[j].tokens)}
  IN  IF more \subseteq c THEN c ELSE Closure(items, c \cup more)

clusterSize(items, idx) == Cardinality(Closure(items, {idx}))

\* The recency part of the score of one item.
RecencyScore(it) ==
  IF it.dated
  THEN (IF it.hours <= 12 THEN (12 - it.hours) * 2 ELSE 0) + Max(0, 24 - it.hours)
  ELSE 0

\* A score that loses 6 per further article of the cluster (a variant for
\* testing the properties against).
ScorePenalised(items, idx) ==
  RecencyScore(items[idx]) - Max(0, Max(clusterSize(items, idx), 1) - 1) * 6

Score(items, idx) ==
  RecencyScore(items[idx]) + Max(0, Max(clusterSize(items, idx), 1) - 1) * 6

RECURSIVE InsertByScore(_, _)
\* scored.sort((a, b) => b.score - a.score): descending, stable
InsertByScore(sorted, x) ==
  IF sorted = <<>> THEN <<x>>
  ELSE IF Head(sorted).score >= x.score
       THEN <<Head(sorted)>> \o InsertByScore(Tail(sorted), x)
       ELSE <<x>> \o sorted

RECURSIVE SortByScore(_)
SortByScore(s) ==
  IF s = <<>> THEN <<>>
  ELSE InsertByScore(SortByScore(SubSeq(s, 1, Len(s) - 1)), s[Len(s)])

RECURSIVE SelectCapped(_, _, _, _)
\* The source diversity loop: stop at limit, skip a source that is at its cap.
SelectCapped(scored, selected, limit, perSourceCap) ==
  IF scored = <<>> \/ Len(selected) >= limit THEN selected
  ELSE LET s == Head(scored)
           cnt == Cardinality({i \in 1 .. Len(selected) :
                                 selected[i].item.source = s.item.source})
       IN  IF s.item.source # "" /\ cnt >= perSourceCap
           THEN SelectCapped(Tail(scored), selected, limit, perSourceCap)
           ELSE SelectCapped(Tail(scored), Append(selected, s), limit, perSourceCap)

\* A ranking that adds 10 to an item whose title names a ticker of the
\* watchlist (a variant for testing the properties against).
rankItemsWatchBoost(items, watchlist, limit, perSourceCap) ==
  LET boost(it) == IF \E k \in 1 .. Len(watchlist) : watchlist[k] \in it.tokens
                   THEN 10 ELSE 0
      scored == [i \in 1 .. Len(items) |->
                   [item |-> items[i], score |-> Score(items, i) + boost(items[i])]]
  IN  SelectCapped(SortByScore(scored), <<>>, limit, perSourceCap)

RECURSIVE SelectUntilCapped(_, _, _, _)
\* A source diversity loop that stops at the first item whose source is at
\* its cap (a variant for testing the properties against).
SelectUntilCapped(scored, selected, limit, perSourceCap) ==
  IF scored = <<>> \/ Len(selected) >= limit THEN selected
  ELSE LET s == Head(scored)
           cnt == Cardinality({i \in 1 .. Len(selected) :
                                 selected[i].item.source = s.item.source})
       IN  IF s.item.source # "" /\ cnt >= perSourceCap
           THEN selected
           ELSE SelectUntilCapped(Tail(scored), Append(selected, s), limit, perSourceCap)

\* A ranking whose diversity loop breaks where the code continues (a variant
\* for testing the properties against).
rankItemsStopAtCap(items, watchlist, limit, perSourceCap) ==
  LET scored == [i \in 1 .. Len(items) |-> [item |-> items[i], score |-> Score(items, i)]]
  IN  SelectUntilCapped(SortByScore(scored), <<>>, limit, perSourceCap)

rankItems(items, watchlist, limit, perSourceCap) ==
  LET scored == [i \in 1 .. Len(items) |-> [item |-> items[i], score |-> Score(items, i)]]
  IN  SelectCapped(SortByScore(scored), <<>>, limit, perSourceCap)

\* ------------------------------------------------------ fetchWithBackoff
\* What one fetch() can give: a network error (fetch rejects) or a response.
\* text is what the caller will extract from the body of a 2xx response.
NetErr == [kind |-> "neterr", status |-> 0, text |-> "none"]
Resp(status, text) == [kind |-> "resp", status |-> status, text |-> text]
StatusCodes == {400, 401, 404, 429, 500, 503}
Responses ==
  {NetErr, Resp(200, "text"), Resp(200, "blank")} \cup {Resp(c, "none") : c \in StatusCodes}

\* resp.ok
RespOk(r) == r.kind = "resp" /\ r.status >= 200 /\ r.status <= 299

\* A retry on every error status (a variant for testing the properties against).
RetryStatusAnyError(status) == status >= 400

\* if (resp.status >= 500 || resp.status === 429) { delay; continue }
RetryStatus(status) == status >= 500 \/ status = 429

\* The state of one fetchWithBackoff call: i is the loop counter, issued the
\* outcomes of the requests made so far, out the way the call ended.
BackoffStart ==
  [i |-> 0, lastErr |-> "none", issued |-> <<>>, out |-> "running", resp |-> NetErr]

\* One pass of the loop body, the fetch giving r; the loop exit with the throw
\* is folded into the pass that uses up the last attempt.
BackoffStep(st, r) ==
  LET seen == Append(st.issued, r)
      err == IF r.kind = "neterr" THEN "network error" ELSE st.lastErr
      retry == r.kind = "neterr" \/ (~RespOk(r) /\ RetryStatus(r.status))
  IN  IF ~retry
      THEN [st EXCEPT !.issued = seen, !.out = "returned", !.resp = r]
      ELSE IF st.i + 1 < attempts
           THEN [st EXCEPT !.i = st.i + 1, !.lastErr = err, !.issued = seen]
           ELSE [st EXCEPT !.i = st.i + 1, !.lastErr = err, !.issued = seen,
                           !.out = "thrown"]

RECURSIVE BackoffRun(_, _)
BackoffRun(st, script) ==
  IF st.out # "running" \/ script = <<>> THEN st
  ELSE BackoffRun(BackoffStep(st, Head(script)), Tail(script))

\* The call against a server that answers the successive requests with script.
fetchWithBackoff(script) == BackoffRun(BackoffStart, script)

\* throw lastErr || new Error('fetch failed')
ThrownError(st) == IF st.lastErr # "none" THEN st.lastErr ELSE "fetch failed"

\* The exchanges one provider call is explored with: an answer with text, an
\* answer without, a client error, a retry that then succeeds, and the three
\* attempts used up by rate limiting, by server errors and by the network.
Scripts ==
  {<<Resp(200, "text")>>, <<Resp(200, "blank")>>, <<Resp(400, "none")>>,
   <<Resp(500, "none"), Resp(200, "text")>>,
   <<Resp(429, "none"), Resp(429, "none"), Resp(429, "none")>>,
   <<Resp(503, "none"), NetErr, Resp(500, "none")>>,
   <<NetErr, NetErr, NetErr>>}

\* The exchanges in which the first answer ends the call.
QuickScripts == {<<Resp(200, "text")>>, <<Resp(400, "none")>>}

\* ------------------------------------------------------------ the cascade
LogRow(level, message, provider, status, note) ==
  [level |-> level, message |-> message, provider |-> provider,
   status |-> status, note |-> note]

NoHtml == [kind |-> "none", provider |-> "none", text |-> "none", items |-> <<>>]
\* markdownToHtmlSafe(text) of the text a provider returned
AiHtml(provider, text) ==
  [kind |-> "ai", provider |-> provider, text |-> text, items |-> <<>>]
NoLabel == "none"
Failure(error, rows) ==
  [ok |-> FALSE, html |-> NoHtml, provider |-> NoLabel, error |-> error, log |-> rows]
\* A result without its label (a variant for testing the properties against).
SuccessUnlabelled(provider, label, text, rows) ==
  [ok |-> TRUE, html |-> AiHtml(provider, text), provider |-> NoLabel,
   error |-> "none", log |-> rows]
Success(provider, label, text, rows) ==
  [ok |-> TRUE, html |-> AiHtml(provider, text), provider |-> label,
   error |-> "none", log |-> rows]

\* m.startsWith("gpt-5") || m.startsWith("o3") || m.startsWith("o4")
shouldUseResponses(model) == model \in {"gpt-5-mini", "o3-mini", "o4-mini"}

\* text && text.trim().length
HasContent(text) == text = "text"

tryGemini(env, script) ==
  IF ~env.GEMINI_API_KEY THEN Failure("missing GEMINI_API_KEY", <<>>)
  ELSE LET invoke == LogRow("info", "ai.invoke", "gemini", 0, "gemini.generateContent")
           st == fetchWithBackoff(script)
       IN  IF st.out = "thrown"
           THEN Failure(ThrownError(st),
                        <<invoke, LogRow("warn", "ai.failed", "gemini", 0, ThrownError(st))>>)
           ELSE IF ~RespOk(st.resp)
           THEN Failure("gemini status",
                        <<invoke, LogRow("warn", "ai.failed", "gemini", st.resp.status, "body")>>)
           ELSE Success("gemini", "Gemini", st.resp.text,
                        <<invoke, LogRow("info", "ai.result", "gemini", 0, "ok")>>)

tryOpenAI(env, ai, script) ==
  IF ~env.OPENAI_API_KEY THEN Failure("missing OPENAI_API_KEY", <<>>)
  ELSE LET path == IF shouldUseResponses(ai.openai_model_id)
                   THEN "responses" ELSE "chat.completions"
           invoke == LogRow("info", "ai.invoke", "openai", 0, path)
           st == fetchWithBackoff(script)
       IN  IF st.out = "thrown"
           THEN Failure(ThrownError(st),
                        <<invoke, LogRow("warn", "ai.failed", "openai", 0, ThrownError(st))>>)
           ELSE IF ~RespOk(st.resp)
           THEN Failure("openai status",
                        <<invoke, LogRow("warn", "ai.failed", "openai", st.resp.status, path)>>)
           ELSE IF HasContent(st.resp.text)
           THEN Success("openai", "OpenAI", st.resp.text,
                        <<invoke, LogRow("info", "ai.result", "openai", 0, path)>>)
           ELSE Failure("openai returned empty content",
                        <<invoke, LogRow("warn", "ai.failed", "openai", 0, "empty_content")>>)

tryAnthropic(env, script) ==
  IF ~env.ANTHROPIC_API_KEY THEN Failure("none", <<>>)
  ELSE LET invoke == LogRow("info", "ai.invoke", "anthropic", 0, "messages")
           st == fetchWithBackoff(script)
       IN  IF st.out = "thrown"
           THEN Failure(ThrownError(st),
                        <<invoke, LogRow("warn", "ai.failed", "anthropic", 0, ThrownError(st))>>)
           ELSE IF ~RespOk(st.resp)
           THEN Failure("anthropic status",
                        <<invoke, LogRow("warn", "ai.failed", "anthropic", st.resp.status, "body")>>)
           ELSE IF HasContent(st.resp.text)
           THEN Success("anthropic", "Anthropic", st.resp.text,
                        <<invoke, LogRow("info", "ai.result", "anthropic", 0, "ok")>>)
           ELSE Failure("none", <<invoke>>)

\* An order that ignores the primary (a variant for testing the properties against).
CascadeOrderFixed(ai_primary) == <<"gemini", "openai", "anthropic">>

\* The order in which summarizeWithAI (with tryOpenAIThenGemini) calls the
\* providers: primary === 'openai' or the default branch.
CascadeOrder(ai_primary) ==
  IF ai_primary = "openai" THEN <<"openai", "gemini", "anthropic">>
  ELSE <<"gemini", "openai", "anthropic">>

tryProvider(p, env, ai, script) ==
  IF p = "gemini" THEN tryGemini(env, script)
  ELSE IF p = "openai" THEN tryOpenAI(env, ai, script)
  ELSE tryAnthropic(env, script)

\* if (!env.GEMINI_API_KEY) return ...: a provider without its key returns
\* before any request is made.
HasKey(p, env) ==
  IF p = "gemini" THEN env.GEMINI_API_KEY
  ELSE IF p = "openai" THEN env.OPENAI_API_KEY
  ELSE env.ANTHROPIC_API_KEY

\* The HTTP exchanges of one provider call.
Requests(p, env, script) ==
  IF HasKey(p, env) THEN fetchWithBackoff(script).issued ELSE <<>>

\* ------------------------------------------------------------- the state
VARIABLES
  cfg,           \* the settings table and the worker's env bindings
  now,           \* the clock, in hours
  pc,            \* pc[r]: where run r stands in runOnce
  loc,           \* loc[r]: the local variables of run r's runOnce call
  runs,          \* table runs, by run_id
  run_logs,      \* table run_logs, by run_id, in insertion order
  run_articles,  \* table run_articles, by run_id, in insertion order
  seen_hashes,   \* table seen_hashes: rows [content_hash, first_seen_at]
  articles,      \* table articles: the content hashes that have a row
  digests,       \* table digests, by run_id
  market_data,   \* table market_data, by run_id
  outbox,        \* the send requests the mail transport has accepted
  reset,         \* the reset-seen request being served, and how many were
  hist,          \* per run: what was true when it started, what it tried
  fb,            \* a fetchWithBackoff call observed request by request
  writes,        \* writes[r]: the rows run r has written, in the order written
  pool,          \* a fetchFeeds call: the pLimit pool and its tasks
  rk,            \* a rankItems call: its input and what it returned
  call           \* a call of one of the pure helpers: its input and result

vars == <<cfg, now, pc, loc, runs, run_logs, run_articles, seen_hashes,
          articles, digests, market_data, outbox, reset, hist, fb, writes,
          pool, rk, call>>

tables == <<runs, run_logs, run_articles, seen_hashes, articles, digests,
            market_data>>

\* The feeds table: feed f carries FeedItems(f); feeds 1 and 2 overlap in the
\* articles between the first and the last, feed 3 carries BigFeed articles.
FeedItems(f) ==
  IF f = 1 THEN [i \in 1 .. NumArticles - 1 |-> Item(i)]
  ELSE IF f = 2 THEN [i \in 1 .. NumArticles - 1 |-> Item(i + 1)]
  ELSE [i \in 1 .. BigFeed |-> Item(i)]
Watchlist == <<"SPY">>

NoRun == [status |-> "none", feeds_total |-> 0, feeds_ok |-> 0, articles_seen |-> 0,
          articles_used |-> 0, email_sent |-> 0, finished |-> FALSE]

NoSummary == Failure("not called", <<>>)

LocInit ==
  [feeds_total |-> 0, feeds_ok |-> 0, normalized |-> <<>>, idx |-> 1,
   freshArticles |-> <<>>, newCount |-> 0, ranked |-> <<>>, marketData |-> <<>>,
   aiIdx |-> 1, summary |-> NoSummary, summaryHtml |-> NoHtml,
   emailOk |-> FALSE, status |-> "none"]

\* What the properties need to remember of a run: the seen set when it
\* started, the hashes reset-seen deleted since, the providers it called with
\* their results, whether it threw, and its run_articles rows at the time
\* summarizeWithAI was called.
HistInit == [seenAtStart |-> {}, resetSince |-> {}, tried |-> <<>>, threw |-> FALSE,
             fetched |-> <<>>, quotes |-> <<>>,
             rowsAtAi |-> <<>>]

\* No fetchFeeds call and no rankItems call is being observed.
PoolIdle == [phase |-> "idle"]
RankIdle == [phase |-> "idle"]
CallIdle == [fn |-> "none"]

\* No reset-seen request is being served. asked and was are history: the
\* body of the request and the seen set it found.
ResetIdle ==
  [pc |-> "idle", hours |-> <<0>>, before |-> 0, deleted |-> 0, after |-> 0,
   asked |-> [kind |-> "none", n |-> 0], was |-> {}]

\* The configurations explored: the settings rows and env bindings a
\* deployment can have.
Env(g, o, a, m, q) ==
  [GEMINI_API_KEY |-> g, OPENAI_API_KEY |-> o, ANTHROPIC_API_KEY |-> a,
   RESEND_API_KEY |-> m, FINNHUB_API_KEY |-> q]
Settings(primary, model, recipients, feeds) ==
  [ai_primary |-> primary, openai_model_id |-> model, recipients |-> recipients,
   feeds |-> feeds, max_articles_considered |-> <<NumArticles>>,
   max_articles_for_ai |-> <<>>, per_source_cap |-> <<>>, watchlist |-> Watchlist]

\* The deployment the concurrent worker is explored under: the Gemini and
\* Resend keys set, Gemini as primary, no recipient, one feed enabled.
Configs ==
  {[env |-> Env(TRUE, FALSE, FALSE, TRUE, FALSE),
    settings |-> Settings("gemini", "gpt-5-mini", 0, <<1>>)]}

\* The deployments a single run is explored under: every provider key set,
\* either primary, with or without the mail key, recipients, enabled feeds.
RunConfigs ==
  {[env |-> Env(TRUE, TRUE, TRUE, m, TRUE), settings |-> Settings(p, "gpt-5-mini", n, f)] :
     m \in BOOLEAN, p \in {"gemini", "openai"}, n \in {0, 1},
     f \in {<<>>, <<1>>, <<1, 2>>}}

\* The deployments the cascade is explored under: any set of provider keys,
\* any primary, either OpenAI path; both feeds, no recipient, no quote.
AiConfigs ==
  {[env |-> Env(g, o, a, TRUE, FALSE), settings |-> Settings(p, model, 0, <<1, 2>>)] :
     g \in BOOLEAN, o \in BOOLEAN, a \in BOOLEAN,
     p \in {"none", "gemini", "openai"}, model \in {"gpt-5-mini", "gpt-4o-mini"}}

\* The values a numeric setting is explored with: unset, and the numbers an
\* admin can store (PUT /admin/api/settings stores any value it is given).
SettingValues == {<<>>, <<0 - 1>>, <<0>>, <<1>>, <<2>>}

\* The deployments selection is explored under: every provider key set or
\* none, the two small feeds or the large one, any budget and per-source cap,
\* max_articles_considered unset, no recipient, no quote.
SelectConfigs ==
  {[env |-> Env(k, k, k, TRUE, FALSE),
    settings |-> [Settings("gemini", "gpt-5-mini", 0, f) EXCEPT
                    !.max_articles_considered = <<>>,
                    !.max_articles_for_ai = b,
                    !.per_source_cap = c]] :
     k \in BOOLEAN, f \in {<<1, 2>>, <<3>>}, b \in SettingValues, c \in SettingValues}

InitWith(configs) ==
  /\ cfg \in configs
  /\ now = 0
  /\ pc = [r \in RunIds |-> "idle"]
  /\ loc = [r \in RunIds |-> LocInit]
  /\ runs = [r \in RunIds |-> NoRun]
  /\ run_logs = [r \in RunIds |-> <<>>]
  /\ run_articles = [r \in RunIds |-> <<>>]
  /\ seen_hashes = {}
  /\ articles = {}
  /\ digests = [r \in RunIds |-> NoHtml]
  /\ market_data = [r \in RunIds |-> <<>>]
  /\ outbox = <<>>
  /\ reset = [n |-> 0, req |-> ResetIdle]
  /\ hist = [r \in RunIds |-> HistInit]
  /\ fb = BackoffStart
  /\ writes = [r \in RunIds |-> <<>>]
  /\ pool = PoolIdle
  /\ rk = RankIdle
  /\ call = CallIdle

Init == InitWith(Configs)

SeenSet == {row.content_hash : row \in seen_hashes}

\* A lookup that finds no row (a variant for testing the properties against).
hasSeenHashNoRow(content_hash) == FALSE

\* SELECT content_hash FROM seen_hashes WHERE content_hash = ?
hasSeenHash(content_hash) == content_hash \in SeenSet

\* One written row, as writes records it: the table, the id of the article
\* for the rows that have one, and the message or status of the others.
W(table, id, note) == [table |-> table, id |-> id, note |-> note]
LogWrites(rows) == [i \in 1 .. Len(rows) |-> W("run_logs", 0, rows[i].message)]
Wrote(r, rows) == writes' = [writes EXCEPT ![r] = @ \o rows]

\* A variant that binds the first run's id instead of run_id (for testing
\* the properties against).
appendRunLogFirst(logs, r, row) == [logs EXCEPT ![1] = Append(@, row)]

\* appendRunLog(env, run_id, level, message, context)
appendRunLog(logs, r, row) == [logs EXCEPT ![r] = Append(@, row)]
AppendAll(logs, r, rows) == [logs EXCEPT ![r] = @ \o rows]
Info(message) == LogRow("info", message, "none", 0, "none")

\* ------------------------------------------------------------- runOnce
\* const run_id = crypto.randomUUID(); markRunStart; the first two log rows.
\* Run ids are handed out in order: which unused id a run gets is immaterial.
runOnceBegin(r) ==
  /\ pc[r] = "idle"
  /\ \A q \in RunIds : q < r => pc[q] # "idle"
  /\ runs' = [runs EXCEPT ![r] = [NoRun EXCEPT !.status = "started"]]
  /\ run_logs' = AppendAll(run_logs, r, <<Info("run start"), Info("starting analysis")>>)
  /\ hist' = [hist EXCEPT ![r] = [HistInit EXCEPT !.seenAtStart = SeenSet]]
  /\ Wrote(r, <<W("runs", 0, "started")>>
               \o LogWrites(<<Info("run start"), Info("starting analysis")>>))
  /\ pc' = [pc EXCEPT ![r] = "fetch"]
  /\ UNCHANGED <<cfg, now, loc, run_articles, seen_hashes, articles, digests,
                 market_data, outbox, reset, fb, pool, rk, call>>

\* async scheduled(controller, env, ctx) { ctx.waitUntil(runOnce(env)); }
Scheduled(r) == runOnceBegin(r)

\* if (path === "/cron" && ...) { const res = await runOnce(env); ... }
CronRoute(r) == runOnceBegin(r)

\* Where an exception thrown in the try block of runOnce lands.
Throw(r) ==
  /\ pc' = [pc EXCEPT ![r] = "catch"]
  /\ hist' = [hist EXCEPT ![r].threw = TRUE]

\* From getSettings to the normalized items: the settings, the log rows about
\* the providers, getEnabledFeeds, fetchFeeds, one "feed result" row per feed,
\* rawItems with its splice, normalizeAndHash. Each feed answers or fails.
\* run_logs has PRIMARY KEY (run_id, ts, message) and ts is nowIso(), to the
\* millisecond: the k-th "feed result" row is refused when it is written in the
\* same millisecond as the one before it (clash = k), and appendRunLog throws.
FetchFeeds(r) ==
  /\ pc[r] = "fetch"
  /\ LET s == cfg.settings
         feedUrls == s.feeds
         n == Len(feedUrls)
     IN  \E oks \in [1 .. n -> BOOLEAN], clash \in {0} \cup 2 .. n :
           LET fetched == [i \in 1 .. n |->
                             [feedUrl |-> feedUrls[i], ok |-> oks[i],
                              items |-> IF oks[i] THEN FeedItems(feedUrls[i]) ELSE <<>>]]
               feeds_ok == Cardinality({i \in 1 .. n : fetched[i].ok})
               maxConsidered ==
                 ParseIntOr(s.max_articles_considered, DefaultMaxConsidered)
               rawItems ==
                 splice(Concat([i \in 1 .. n |-> fetched[i].items]), maxConsidered)
               primary == IF s.ai_primary = "none" THEN "gemini" ELSE s.ai_primary
               warns ==
                 (IF primary = "openai" /\ ~cfg.env.OPENAI_API_KEY
                  THEN <<LogRow("warn", "primary key missing", "openai", 0, "none")>>
                  ELSE <<>>)
                 \o (IF primary = "gemini" /\ ~cfg.env.GEMINI_API_KEY
                     THEN <<LogRow("warn", "primary key missing", "gemini", 0, "none")>>
                     ELSE <<>>)
               head == <<Info("ai providers configured")>> \o warns
                       \o <<Info("fetching rss feeds"), Info("rss collection complete")>>
               feedRows == [i \in 1 .. n |->
                              LogRow(IF fetched[i].ok THEN "info" ELSE "warn",
                                     "feed result", "none", fetched[i].feedUrl, "none")]
           IN  /\ loc' = [loc EXCEPT ![r].feeds_total = n,
                                     ![r].feeds_ok = feeds_ok,
                                     ![r].normalized = IF clash = 0 THEN rawItems ELSE <<>>]
               /\ IF clash = 0
                  THEN /\ run_logs' = AppendAll(run_logs, r, head \o feedRows)
                       /\ Wrote(r, LogWrites(head \o feedRows))
                       /\ pc' = [pc EXCEPT ![r] =
                                   IF rawItems = <<>> THEN "rank" ELSE "dedupe"]
                       /\ hist' = [hist EXCEPT ![r].fetched = [i \in 1 .. n |-> oks[i]]]
                  ELSE /\ run_logs' = AppendAll(run_logs, r,
                                                head \o Prefix(feedRows, clash - 1))
                       /\ Wrote(r, LogWrites(head \o Prefix(feedRows, clash - 1)))
                       /\ pc' = [pc EXCEPT ![r] = "catch"]
                       /\ hist' = [hist EXCEPT ![r].threw = TRUE,
                                               ![r].fetched = [i \in 1 .. n |-> oks[i]]]
  /\ UNCHANGED <<cfg, now, runs, run_articles, seen_hashes, articles, digests,
                 market_data, outbox, reset, fb, pool, rk, call>>

\* if (await hasSeenHash(env, n.content_hash)) continue;
DedupeCheck(r) ==
  /\ pc[r] = "dedupe"
  /\ LET n == loc[r].normalized[loc[r].idx]
     IN  IF hasSeenHash(n.content_hash)
         THEN /\ loc' = [loc EXCEPT ![r].idx = @ + 1]
              /\ pc' = [pc EXCEPT ![r] =
                          IF loc[r].idx = Len(loc[r].normalized) THEN "rank" ELSE "dedupe"]
         ELSE /\ pc' = [pc EXCEPT ![r] = "insert"]
              /\ UNCHANGED loc
  /\ UNCHANGED <<cfg, now, tables, outbox, reset, hist, fb, writes, pool, rk, call>>

\* The statements run for a fresh item, in the order runOnce awaits them.
\* The article row written before its seen-hash row (a variant for testing
\* the properties against).
InsertWritesArticleFirst(h) ==
  <<W("articles", h, "insert"), W("seen_hashes", h, "insert")>>

InsertWrites(h) == <<W("seen_hashes", h, "insert"), W("articles", h, "insert")>>

\* insertSeenHash (INSERT OR IGNORE), insertArticle (INSERT OR IGNORE, then
\* the id of the row with this hash), freshArticles.push, newCount++.
\* The article with content_hash h has id h.
DedupeInsert(r) ==
  /\ pc[r] = "insert"
  /\ LET n == loc[r].normalized[loc[r].idx]
     IN  /\ seen_hashes' =
              IF n.content_hash \in SeenSet THEN seen_hashes
              ELSE seen_hashes \cup {[content_hash |-> n.content_hash,
                                      first_seen_at |-> now]}
         /\ articles' = articles \cup {n.content_hash}
         /\ loc' = [loc EXCEPT ![r].idx = @ + 1,
                               ![r].newCount = @ + 1,
                               ![r].freshArticles =
                                  Append(@, [n EXCEPT !.article_id = n.content_hash])]
         /\ Wrote(r, InsertWrites(n.content_hash))
  /\ pc' = [pc EXCEPT ![r] =
              IF loc[r].idx = Len(loc[r].normalized) THEN "rank" ELSE "dedupe"]
  /\ UNCHANGED <<cfg, now, runs, run_logs, run_articles, digests, market_data,
                 outbox, reset, hist, fb, pool, rk, call>>

RECURSIVE addRunArticles(_, _, _)
\* for (i...) if (ra.item.article_id) await addRunArticle(run_id, id, i + 1, score)
\* run_articles has PRIMARY KEY (run_id, article_id): a second row for an
\* article of this run is refused and addRunArticle throws.
addRunArticles(rows, ranked, i) ==
  IF i > Len(ranked) THEN [rows |-> rows, threw |-> FALSE]
  ELSE LET ra == ranked[i]
       IN  IF ra.item.article_id = 0 THEN addRunArticles(rows, ranked, i + 1)
           ELSE IF \E k \in 1 .. Len(rows) : rows[k].article_id = ra.item.article_id
           THEN [rows |-> rows, threw |-> TRUE]
           ELSE addRunArticles(
                  Append(rows, [article_id |-> ra.item.article_id, rank |-> i,
                                score |-> ra.score]),
                  ranked, i + 1)

\* perSourceCap, rankItems, the "articles ranked" row, the run_articles rows.
Rank(r) ==
  /\ pc[r] = "rank"
  /\ LET s == cfg.settings
         perSourceCap ==
           Max(1, Min(MaxPerSourceCap, ParseIntOr(s.per_source_cap, DefaultPerSourceCap)))
         maxForAi == ParseIntOr(s.max_articles_for_ai, DefaultMaxForAi)
         ranked == rankItems(loc[r].freshArticles, cfg.settings.watchlist, maxForAi, perSourceCap)
         added == addRunArticles(run_articles[r], ranked, 1)
     IN  /\ loc' = [loc EXCEPT ![r].ranked = ranked]
         /\ run_logs' = appendRunLog(run_logs, r,
                          LogRow("info", "articles ranked", "none", Len(ranked), "none"))
         /\ run_articles' = [run_articles EXCEPT ![r] = added.rows]
         /\ Wrote(r, <<W("run_logs", 0, "articles ranked")>>
                      \o [i \in 1 .. Len(added.rows) - Len(run_articles[r]) |->
                            W("run_articles",
                              added.rows[Len(run_articles[r]) + i].article_id, "insert")])
         /\ IF added.threw THEN Throw(r)
            ELSE pc' = [pc EXCEPT ![r] = "market"] /\ UNCHANGED hist
  /\ UNCHANGED <<cfg, now, runs, seen_hashes, articles, digests, market_data,
                 outbox, reset, fb, pool, rk, call>>

\* What the quote API can answer for one symbol: the request fails (fetch
\* rejects), or a response comes, ok or not, whose body gives c, d and dp as
\* Number(data?.x ?? NaN) reads them: a finite number, NaN when the field is
\* missing or not a number, or an infinite value.
Infinity == <<1, 0>>
isFinite(x) == Len(x) = 1
QuoteAnswer(kind, ok, c, d, dp) == [kind |-> kind, ok |-> ok, c |-> c, d |-> d, dp |-> dp]
QuoteAnswers ==
  {QuoteAnswer("neterr", FALSE, NaN, NaN, NaN),
   QuoteAnswer("resp", FALSE, Num(1), Num(1), Num(1)),
   QuoteAnswer("resp", TRUE, Num(1), Num(1), Num(1)),
   QuoteAnswer("resp", TRUE, NaN, Num(1), Num(1)),
   QuoteAnswer("resp", TRUE, Num(1), NaN, Num(1)),
   QuoteAnswer("resp", TRUE, Num(1), Num(1), NaN),
   QuoteAnswer("resp", TRUE, Num(1), Num(1), Infinity)}

\* The body of the loop of fetchMarketData: whether the symbol gets a quote.
HasQuote(a) ==
  /\ a.kind = "resp"
  /\ a.ok
  /\ isFinite(a.c) /\ isFinite(a.d) /\ isFinite(a.dp)

\* String(s || "").toUpperCase(), for the symbols explored.
toUpperCase(s) == IF s = "spy" THEN "SPY" ELSE s

RECURSIVE Unique(_, _)
\* Array.from(new Set(...)): the first occurrence of each, in order.
Unique(seq, seen) ==
  IF seq = <<>> THEN <<>>
  ELSE IF Head(seq) \in seen THEN Unique(Tail(seq), seen)
       ELSE <<Head(seq)>> \o Unique(Tail(seq), seen \cup {Head(seq)})

\* symbols.map(s => String(s || "").toUpperCase()).filter(Boolean), unique
UniqueSymbols(symbols) ==
  Unique(SelectSeq([i \in 1 .. Len(symbols) |-> toUpperCase(symbols[i])],
                   LAMBDA s : s # ""), {})

RECURSIVE QuotesUntilFailure(_, _)
\* The quotes up to the first lookup that fails (a variant for testing the
\* properties against).
QuotesUntilFailure(unique, answer) ==
  IF unique = <<>> THEN <<>>
  ELSE IF ~HasQuote(answer[Head(unique)]) THEN <<>>
       ELSE <<Head(unique)>> \o QuotesUntilFailure(Tail(unique), answer)

\* for (const sym of unique) { try { ... results.push } catch {} }
Quotes(unique, answer) == SelectSeq(unique, LAMBDA sym : HasQuote(answer[sym]))

\* fetchMarketData(env, symbols), the API answering answer[sym] for sym. A
\* quote is held as its symbol.
fetchMarketData(env, symbols, answer) ==
  IF ~env.FINNHUB_API_KEY \/ symbols = <<>> THEN <<>>
  ELSE Quotes(UniqueSymbols(symbols), answer)

\* fetchMarketData, saveMarketData, and the "Attempting AI analysis" row.
\* The lookups are made only with a token and a symbol to look up.
Market(r) ==
  /\ pc[r] = "market"
  /\ LET watchlist == cfg.settings.watchlist
         asked == IF cfg.env.FINNHUB_API_KEY THEN Range(UniqueSymbols(watchlist)) ELSE {}
     IN  \E answer \in [asked -> QuoteAnswers] :
           LET marketData == fetchMarketData(cfg.env, watchlist, answer)
           IN  /\ loc' = [loc EXCEPT ![r].marketData = marketData]
               /\ market_data' = [market_data EXCEPT ![r] = marketData]
               /\ hist' = [hist EXCEPT ![r].rowsAtAi = run_articles[r],
                                       ![r].quotes = <<answer>>]
  /\ run_logs' = appendRunLog(run_logs, r, Info("attempting ai analysis"))
  /\ Wrote(r, [i \in 1 .. Len(market_data'[r]) |-> W("market_data", 0, market_data'[r][i])]
               \o <<W("run_logs", 0, "attempting ai analysis")>>)
  /\ pc' = [pc EXCEPT ![r] = "summarize"]
  /\ UNCHANGED <<cfg, now, runs, run_articles, seen_hashes, articles, digests,
                 outbox, reset, fb, pool, rk, call>>

\* One provider call of summarizeWithAI: the next provider of the order is
\* tried; its log rows are written with safeAppend. On success the result is
\* returned; on failure the next provider follows, and after the last one the
\* failure is returned. scripts: the exchanges the providers can have.
AiTry(r, scripts) ==
  /\ pc[r] = "summarize"
  /\ LET order == CascadeOrder(cfg.settings.ai_primary)
         k == loc[r].aiIdx
         p == order[k]
     IN  \E script \in scripts :
           LET res == tryProvider(p, cfg.env, cfg.settings, script)
               last == ~res.ok /\ k = Len(order)
           IN  /\ run_logs' = AppendAll(run_logs, r, res.log)
               /\ Wrote(r, LogWrites(res.log))
               /\ hist' = [hist EXCEPT ![r].tried =
                             Append(@, [provider |-> p, ok |-> res.ok, rows |-> res.log,
                                        requests |-> Requests(p, cfg.env, script)])]
               /\ loc' = [loc EXCEPT
                            ![r].aiIdx = IF res.ok \/ last THEN @ ELSE @ + 1,
                            ![r].summary =
                               IF res.ok THEN res
                               ELSE IF last THEN Failure("all providers failed", <<>>)
                               ELSE @]
               /\ pc' = [pc EXCEPT ![r] = IF res.ok \/ last THEN "email" ELSE "summarize"]
  /\ UNCHANGED <<cfg, now, runs, run_articles, seen_hashes, articles, digests,
                 market_data, outbox, reset, fb, pool, rk, call>>

\* One <li> per item, with no limit (a variant for testing the properties against).
fallbackHeadlinesAll(items) ==
  [kind |-> "headlines", provider |-> "none", text |-> "none",
   items |-> [i \in 1 .. Len(items) |-> items[i].item.content_hash]]

\* items.slice(0, 12), one <li> per item
fallbackHeadlines(items) ==
  [kind |-> "headlines", provider |-> "none", text |-> "none",
   items |-> Prefix([i \in 1 .. Len(items) |-> items[i].item.content_hash],
                    HeadlineLimit)]

\* provider.toLowerCase().includes('openai') ? 'openai' : (... 'gemini' ...)
usedProvider(label) ==
  IF label = "OpenAI" THEN "openai"
  ELSE IF label = "Gemini" THEN "gemini" ELSE "anthropic"

\* sendDigestEmail: no key, a non-2xx answer and a network error all give
\* {ok: false}; outcome is what the transport does with the request.
sendDigestEmail(env, outcome) == env.RESEND_API_KEY /\ outcome = "accepted"

\* From the return of summarizeWithAI to the "email sent" row: summaryHtml,
\* the rows about the summary, and the email (sent only to a non-empty
\* recipient list; with no recipient emailRes is { ok: true }).
Email(r) ==
  /\ pc[r] = "email"
  /\ \E outcome \in {"accepted", "rejected", "neterr"} :
       LET summary == loc[r].summary
           summaryHtml == IF summary.ok THEN summary.html
                          ELSE fallbackHeadlines(loc[r].ranked)
           primary == IF cfg.settings.ai_primary = "none" THEN "gemini"
                      ELSE cfg.settings.ai_primary
           requested == cfg.settings.recipients > 0 /\ cfg.env.RESEND_API_KEY
           emailOk == IF cfg.settings.recipients > 0
                      THEN sendDigestEmail(cfg.env, outcome) ELSE TRUE
           rows ==
             (IF ~summary.ok
              THEN <<LogRow("warn", "ai summary failed", "none", 0, summary.error)>>
              ELSE <<>>)
             \o <<LogRow("info", "ai summary", summary.provider, 0,
                         IF summary.ok THEN "ok" ELSE "failed")>>
             \o (IF summary.ok /\ usedProvider(summary.provider) # primary
                 THEN <<LogRow("info", "fallback provider used", summary.provider, 0,
                               usedProvider(summary.provider))>>
                 ELSE <<>>)
             \o <<Info("preparing to send email")>>
             \o <<IF emailOk THEN Info("email sent")
                  ELSE LogRow("error", "email send failed", "none", 0, "none")>>
       IN  /\ (~requested => outcome = "accepted")
           /\ loc' = [loc EXCEPT ![r].summaryHtml = summaryHtml, ![r].emailOk = emailOk]
           /\ run_logs' = AppendAll(run_logs, r, rows)
           /\ Wrote(r, LogWrites(rows))
           /\ outbox' = IF requested /\ outcome = "accepted"
                        THEN Append(outbox, [run_id |-> r, html |-> summaryHtml])
                        ELSE outbox
  /\ pc' = [pc EXCEPT ![r] = "digest"]
  /\ UNCHANGED <<cfg, now, runs, run_articles, seen_hashes, articles, digests,
                 market_data, reset, hist, fb, pool, rk, call>>

\* A digest saved only when the email went out (a variant for testing the
\* properties against).
SaveDigestIfSent(r) ==
  /\ pc[r] = "digest"
  /\ digests' = [digests EXCEPT ![r] = IF loc[r].emailOk THEN loc[r].summaryHtml ELSE @]
  /\ Wrote(r, IF loc[r].emailOk THEN <<W("digests", 0, "upsert")>> ELSE <<>>)
  /\ pc' = [pc EXCEPT ![r] = "finish"]
  /\ UNCHANGED <<cfg, now, loc, runs, run_logs, run_articles, seen_hashes, articles,
                 market_data, outbox, reset, hist, fb, pool, rk, call>>

\* await saveDigestHtml(env, run_id, summaryHtml);
SaveDigest(r) ==
  /\ pc[r] = "digest"
  /\ digests' = [digests EXCEPT ![r] = loc[r].summaryHtml]
  /\ Wrote(r, <<W("digests", 0, "upsert")>>)
  /\ pc' = [pc EXCEPT ![r] = "finish"]
  /\ UNCHANGED <<cfg, now, loc, runs, run_logs, run_articles, seen_hashes, articles,
                 market_data, outbox, reset, hist, fb, pool, rk, call>>

\* A status that forgets the feeds (a variant for testing the properties against).
RunStatusNoFeeds(emailOk, summaryOk, feeds_ok) ==
  IF emailOk /\ summaryOk THEN "success" ELSE "failed"

\* (emailRes.ok && summary.ok) ? "success" : (feeds_ok > 0 ? "partial" : "failed")
RunStatus(emailOk, summaryOk, feeds_ok) ==
  IF emailOk /\ summaryOk THEN "success"
  ELSE IF feeds_ok > 0 THEN "partial" ELSE "failed"

\* markRunFinish(env, run_id, { status, feeds_total, ... })
MarkFinish(r) ==
  /\ pc[r] = "finish"
  /\ LET status == RunStatus(loc[r].emailOk, loc[r].summary.ok, loc[r].feeds_ok)
     IN  /\ runs' = [runs EXCEPT ![r] =
                       [status |-> status, feeds_total |-> loc[r].feeds_total,
                        feeds_ok |-> loc[r].feeds_ok,
                        articles_seen |-> Len(loc[r].normalized),
                        articles_used |-> Len(loc[r].ranked),
                        email_sent |-> IF loc[r].emailOk THEN 1 ELSE 0,
                        finished |-> TRUE]]
         /\ loc' = [loc EXCEPT ![r].status = status]
         /\ Wrote(r, <<W("runs", 0, status)>>)
  /\ pc' = [pc EXCEPT ![r] = "finishlog"]
  /\ UNCHANGED <<cfg, now, run_logs, run_articles, seen_hashes, articles, digests,
                 market_data, outbox, reset, hist, fb, pool, rk, call>>

\* await appendRunLog(env, run_id, "info", "run finish", res); return res;
FinishLog(r) ==
  /\ pc[r] = "finishlog"
  /\ run_logs' = appendRunLog(run_logs, r, Info("run finish"))
  /\ Wrote(r, <<W("run_logs", 0, "run finish")>>)
  /\ pc' = [pc EXCEPT ![r] = "done"]
  /\ UNCHANGED <<cfg, now, loc, runs, run_articles, seen_hashes, articles, digests,
                 market_data, outbox, reset, hist, fb, pool, rk, call>>

\* catch (e) { await markRunFinish(env, run_id, { status: "failed" }); ...
CatchMark(r) ==
  /\ pc[r] = "catch"
  /\ runs' = [runs EXCEPT ![r].status = "failed", ![r].finished = TRUE]
  /\ loc' = [loc EXCEPT ![r].status = "failed"]
  /\ Wrote(r, <<W("runs", 0, "failed")>>)
  /\ pc' = [pc EXCEPT ![r] = "catchlog"]
  /\ UNCHANGED <<cfg, now, run_logs, run_articles, seen_hashes, articles, digests,
                 market_data, outbox, reset, hist, fb, pool, rk, call>>

\* ... await appendRunLog(env, run_id, "error", "run failed", ...); return }
CatchLog(r) ==
  /\ pc[r] = "catchlog"
  /\ run_logs' = appendRunLog(run_logs, r, LogRow("error", "run failed", "none", 0, "none"))
  /\ Wrote(r, <<W("run_logs", 0, "run failed")>>)
  /\ pc' = [pc EXCEPT ![r] = "done"]
  /\ UNCHANGED <<cfg, now, loc, runs, run_articles, seen_hashes, articles, digests,
                 market_data, outbox, reset, hist, fb, pool, rk, call>>

\* ------------------------------------------------------------ reset-seen
\* Math.max(1, Math.min(168, Math.floor(hours)))
ClampHours(h) == Max(1, Min(168, h))

\* A window that leaves out the row that is exactly hours old (a variant
\* for testing the properties against).
InWindowStrict(hours) ==
  {row \in seen_hashes : row.first_seen_at > now - ClampHours(hours)}

\* WHERE first_seen_at >= datetime('now', '-<hours> hours')
InWindow(hours) == {row \in seen_hashes : row.first_seen_at >= now - ClampHours(hours)}

\* The JSON bodies of a reset-seen request, by what they hold under "hours":
\* nothing, a number (or a string of digits), or any other text.
NoHours == [kind |-> "missing", n |-> 0]
HoursNumber(n) == [kind |-> "number", n |-> n]
HoursText == [kind |-> "text", n |-> 0]

\* parseInt(String(body?.hours ?? 12), 10)
ParseHours(body) ==
  IF body.kind = "missing" THEN Num(12)
  ELSE IF body.kind = "number" THEN Num(body.n)
  ELSE NaN

\* Math.max(1, Math.min(168, x)) on a JavaScript number: NaN stays NaN.
ClampNumber(x) == IF x = NaN THEN NaN ELSE Num(ClampHours(x[1]))

\* The rows the WHERE clause of countSeenHashesSince and of
\* resetSeenHashesHours matches. For NaN the modifier is '-NaN hours',
\* datetime() gives NULL and the comparison matches no row.
Since(x) == IF x = NaN THEN {} ELSE InWindow(x[1])

\* const body = await request.json(); const hours = ...;
\* const before = await countSeenHashesSince(env, hours);
ResetRequest(bodies) ==
  /\ reset.req.pc = "idle"
  /\ reset.n < MaxResets
  /\ \E body \in bodies :
       LET hours == ClampNumber(ParseHours(body))
       IN  reset' = [n |-> reset.n + 1,
                     req |-> [ResetIdle EXCEPT !.pc = "delete", !.hours = hours,
                                               !.before = Cardinality(Since(hours)),
                                               !.asked = body, !.was = seen_hashes]]
  /\ UNCHANGED <<cfg, now, pc, loc, tables, outbox, hist, fb, writes, pool, rk, call>>

\* The requests the concurrent worker is explored with.
ResetCountBefore == ResetRequest({HoursNumber(1), HoursNumber(12)})

\* const deleted = await resetSeenHashesHours(env, hours);
ResetDelete ==
  /\ reset.req.pc = "delete"
  /\ LET gone == Since(reset.req.hours)
     IN  /\ seen_hashes' = seen_hashes \ gone
         /\ reset' = [reset EXCEPT !.req.pc = "recount", !.req.deleted = Cardinality(gone)]
         /\ hist' = [r \in RunIds |->
                       IF pc[r] \in {"idle", "done"} THEN hist[r]
                       ELSE [hist[r] EXCEPT !.resetSince =
                               @ \cup {row.content_hash : row \in gone}]]
  /\ UNCHANGED <<cfg, now, pc, loc, runs, run_logs, run_articles, articles, digests,
                 market_data, outbox, fb, writes, pool, rk, call>>

\* const after = await countSeenHashesSince(env, hours); log; return json
ResetCountAfter ==
  /\ reset.req.pc = "recount"
  /\ reset' = [reset EXCEPT !.req.pc = "idle",
                            !.req.after = Cardinality(Since(reset.req.hours))]
  /\ UNCHANGED <<cfg, now, pc, loc, tables, outbox, hist, fb, writes, pool, rk, call>>

\* --------------------------------------------------------- specifications
\* The steps of the try block of run r after it has started, the providers
\* answering with one of scripts.
TryStep(r, scripts) ==
  \/ FetchFeeds(r)
  \/ DedupeCheck(r)
  \/ DedupeInsert(r)
  \/ Rank(r)
  \/ Market(r)
  \/ AiTry(r, scripts)
  \/ Email(r)
  \/ SaveDigest(r)
  \/ MarkFinish(r)
  \/ FinishLog(r)

\* The steps of run r, its catch block included.
RunStep(r, scripts) ==
  \/ TryStep(r, scripts)
  \/ CatchMark(r)
  \/ CatchLog(r)

\* The worker: cron fires and /cron requests start runs at any time, the
\* runs in flight and the reset-seen endpoint interleave. With the one feed of
\* Configs no insert of a run is refused (its articles are distinct, and it
\* writes one "feed result" row), so the catch block is never entered.
Next ==
  \/ \E r \in RunIds : Scheduled(r) \/ CronRoute(r) \/ TryStep(r, QuickScripts)
  \/ ResetCountBefore
  \/ ResetDelete
  \/ ResetCountAfter

Spec == Init /\ [][Next]_vars

\* One run from its start to its end, under the deployments of RunConfigs.
InitRun == InitWith(RunConfigs)

NextRun == Scheduled(1) \/ CronRoute(1) \/ RunStep(1, QuickScripts)

SpecRun == InitRun /\ [][NextRun]_vars

\* The deployments the quote lookups are explored under: with and without
\* the Finnhub token, one feed, no recipient, and watchlist rows with one
\* symbol, two, a repeated one in either case, an empty entry, and none.
MarketWatchlists ==
  {Watchlist, <<"SPY", "QQQ">>, <<"spy", "SPY", "QQQ">>, <<"", "QQQ">>, <<>>}

MarketConfigs ==
  {[env |-> Env(TRUE, TRUE, TRUE, TRUE, q),
    settings |-> [Settings("gemini", "gpt-5-mini", 0, <<1>>) EXCEPT !.watchlist = w]] :
     q \in BOOLEAN, w \in MarketWatchlists}

InitMarket == InitWith(MarketConfigs)

\* One run; with one feed no insert is refused and the catch block is
\* never entered.
NextMarket == Scheduled(1) \/ CronRoute(1) \/ TryStep(1, QuickScripts)

SpecMarket == InitMarket /\ [][NextMarket]_vars

\* A run and then, once it has ended, a second one: the re-run of an
\* unchanged deployment, with no reset-seen request.
RerunConfigs ==
  {[env |-> Env(TRUE, TRUE, TRUE, TRUE, FALSE),
    settings |-> Settings("gemini", "gpt-5-mini", 0, f)] : f \in {<<1>>, <<1, 2>>}}

InitRerun == InitWith(RerunConfigs)

NextRerun ==
  \/ Scheduled(1) \/ CronRoute(1) \/ RunStep(1, QuickScripts)
  \/ (pc[1] = "done" /\ (Scheduled(2) \/ CronRoute(2)))
  \/ RunStep(2, QuickScripts)

SpecRerun == InitRerun /\ [][NextRerun]_vars

\* The deployments in which a run leaves fresh articles unselected: two
\* feeds that overlap (a run sees the articles of those that answer), and
\* an AI budget of one article or a per-source cap of one.
LeftoverConfigs ==
  {[env |-> Env(TRUE, FALSE, FALSE, TRUE, FALSE),
    settings |-> [Settings("gemini", "gpt-5-mini", 0, <<1, 2>>) EXCEPT
                    !.max_articles_for_ai = bc[1], !.per_source_cap = bc[2]]] :
     bc \in {<<<<1>>, <<>>>>, <<<<>>, <<1>>>>}}

InitLeftover == InitWith(LeftoverConfigs)

\* A run, a later run started once the first has ended, and the reset-seen
\* endpoint at any time.
NextLeftover ==
  \/ Scheduled(1) \/ CronRoute(1) \/ RunStep(1, QuickScripts)
  \/ (pc[1] = "done" /\ (Scheduled(2) \/ CronRoute(2)))
  \/ RunStep(2, QuickScripts)
  \/ ResetCountBefore
  \/ ResetDelete
  \/ ResetCountAfter

SpecLeftover == InitLeftover /\ [][NextLeftover]_vars

\* The cascade of one run, the providers' exchanges in full.
InitAI == InitWith(AiConfigs)

NextAI == Scheduled(1) \/ CronRoute(1) \/ RunStep(1, Scripts)

SpecAI == InitAI /\ [][NextAI]_vars

\* One run from its start to its end, under the deployments of SelectConfigs.
InitSelect == InitWith(SelectConfigs)

NextSelect == Scheduled(1) \/ CronRoute(1) \/ RunStep(1, QuickScripts)

SpecSelect == InitSelect /\ [][NextSelect]_vars

\* The deployments the consideration cap is explored under: every provider
\* key set or none, the two small feeds or the large one, any stored
\* max_articles_considered, no recipient, no quote.
ConsiderConfigs ==
  {[env |-> Env(k, k, k, TRUE, FALSE),
    settings |-> [Settings("gemini", "gpt-5-mini", 0, f) EXCEPT
                    !.max_articles_considered = c]] :
     k \in BOOLEAN, f \in {<<1, 2>>, <<3>>}, c \in SettingValues}

InitConsider == InitWith(ConsiderConfigs)

NextConsider == Scheduled(1) \/ CronRoute(1) \/ RunStep(1, QuickScripts)

SpecConsider == InitConsider /\ [][NextConsider]_vars

\* One fetchWithBackoff call, the server answering each request as it likes.
FetchRequest ==
  /\ fb.out = "running"
  /\ \E r \in Responses : fb' = BackoffStep(fb, r)
  /\ UNCHANGED <<cfg, now, pc, loc, tables, outbox, reset, hist, writes, pool, rk, call>>

SpecFetch == Init /\ [][FetchRequest]_vars

\* ------------------------------------------------------------ fetchFeeds
\* fetchFeeds over pLimit, one step per continuation. pool holds the state of
\* one call: the limiter's active and queue, and for every task where it
\* stands: "queued" (awaiting the promise whose resolve is in queue), "woken"
\* (resolve called, continuation pending), "fetching" (fn called, the feed
\* request out), "settled" (fetchOne has its result, the continuation after
\* await fn() pending) and "done" (next() called, the task's promise
\* fulfilled).
FetchOutcomes == {"200", "503", "timeout", "network error"}

\* fetchOne: the result for a feed whose request ends as outcome says. Every
\* outcome gives a result; fetchOne never rejects.
fetchOne(feedUrl, outcome) ==
  IF outcome \in {"timeout", "network error"}
  THEN [feedUrl |-> feedUrl, ok |-> FALSE, items |-> <<>>, error |-> outcome]
  ELSE IF outcome # "200"
       THEN [feedUrl |-> feedUrl, ok |-> FALSE, items |-> <<>>, error |-> "status " \o outcome]
       ELSE [feedUrl |-> feedUrl, ok |-> TRUE, items |-> FeedItems(feedUrl), error |-> "none"]

Fulfilled(value) == [status |-> "fulfilled", value |-> value, reason |-> "none"]

\* A limiter that admits a caller while active is at most the bound (a
\* variant for testing the properties against).
limitCallInclusive(p, i) ==
  IF p.active > p.concurrency
  THEN [p EXCEPT !.queue = Append(@, i), !.task[i] = "queued"]
  ELSE [p EXCEPT !.active = @ + 1, !.task[i] = "fetching"]

\* The synchronous part of a call of the limiter for task i: the caller
\* waits in queue when active >= concurrency, else active++ and fn() starts.
limitCall(p, i) ==
  IF p.active >= p.concurrency
  THEN [p EXCEPT !.queue = Append(@, i), !.task[i] = "queued"]
  ELSE [p EXCEPT !.active = @ + 1, !.task[i] = "fetching"]

\* feedUrls.map(url => limit(...)): the calls in input order.
RECURSIVE MapTasks(_, _)
MapTasks(p, i) ==
  IF i > Len(p.feedUrls) THEN p ELSE MapTasks(limitCall(p, i), i + 1)

\* The results in the order the fetches settled (a variant for testing the
\* properties against).
CollateByCompletion(feedUrls, settled, order) ==
  [k \in 1 .. Len(order) |->
     IF settled[order[k]].status = "fulfilled" THEN settled[order[k]].value
     ELSE [feedUrl |-> feedUrls[order[k]], ok |-> FALSE, items |-> <<>>,
           error |-> settled[order[k]].reason]]

\* settled.map((res, i) => ...)
Collate(feedUrls, settled, order) ==
  [i \in 1 .. Len(settled) |->
     IF settled[i].status = "fulfilled" THEN settled[i].value
     ELSE [feedUrl |-> feedUrls[i], ok |-> FALSE, items |-> <<>>,
           error |-> settled[i].reason]]

\* fetchFeeds(env, feedUrls, maxConcurrency): pLimit(maxConcurrency) and the
\* map, up to the await of Promise.allSettled.
PoolStart(n, c) ==
  MapTasks([phase |-> "running",
            feedUrls |-> [i \in 1 .. n |-> i],
            concurrency |-> c,
            active |-> 0,
            queue |-> <<>>,
            task |-> [i \in 1 .. n |-> "created"],
            outcome |-> [i \in 1 .. n |-> "none"],
            settled |-> [i \in 1 .. n |-> Fulfilled(0)],
            order |-> <<>>,
            results |-> <<>>], 1)

fetchFeedsCall ==
  /\ pool.phase = "idle"
  /\ \E n \in 0 .. MaxFeeds, c \in 1 .. MaxConcurrency : pool' = PoolStart(n, c)
  /\ UNCHANGED <<cfg, now, pc, loc, tables, outbox, reset, hist, fb, writes, rk, call>>

\* The request of task i ends: fetchOne returns its result.
Settle(i) ==
  /\ pool.phase = "running"
  /\ i \in DOMAIN pool.task
  /\ pool.task[i] = "fetching"
  /\ \E o \in FetchOutcomes :
       pool' = [pool EXCEPT !.task[i] = "settled",
                            !.outcome[i] = o,
                            !.settled[i] = Fulfilled(fetchOne(pool.feedUrls[i], o)),
                            !.order = Append(@, i)]
  /\ UNCHANGED <<cfg, now, pc, loc, tables, outbox, reset, hist, fb, writes, rk, call>>

\* The continuation after await fn() in task i: next() (active--, the first
\* waiter's resolve called), return res.
Release(i) ==
  /\ pool.phase = "running"
  /\ i \in DOMAIN pool.task
  /\ pool.task[i] = "settled"
  /\ pool' = IF pool.queue = <<>>
             THEN [pool EXCEPT !.active = @ - 1, !.task[i] = "done"]
             ELSE [pool EXCEPT !.active = @ - 1, !.task[i] = "done",
                               !.queue = Tail(@),
                               !.task[Head(pool.queue)] = "woken"]
  /\ UNCHANGED <<cfg, now, pc, loc, tables, outbox, reset, hist, fb, writes, rk, call>>

\* The continuation of a waiter whose resolve was called: active++, fn().
Resume(j) ==
  /\ pool.phase = "running"
  /\ j \in DOMAIN pool.task
  /\ pool.task[j] = "woken"
  /\ pool' = [pool EXCEPT !.active = @ + 1, !.task[j] = "fetching"]
  /\ UNCHANGED <<cfg, now, pc, loc, tables, outbox, reset, hist, fb, writes, rk, call>>

\* Promise.allSettled(tasks) resolves once every task is done; the results.
fetchFeedsReturn ==
  /\ pool.phase = "running"
  /\ \A i \in DOMAIN pool.task : pool.task[i] = "done"
  /\ pool' = [pool EXCEPT !.phase = "returned",
                          !.results = Collate(pool.feedUrls, pool.settled, pool.order)]
  /\ UNCHANGED <<cfg, now, pc, loc, tables, outbox, reset, hist, fb, writes, rk, call>>

NextFeeds ==
  \/ fetchFeedsCall
  \/ \E i \in 1 .. MaxFeeds : Settle(i)
  \/ \E i \in 1 .. MaxFeeds : Release(i)
  \/ \E i \in 1 .. MaxFeeds : Resume(i)
  \/ fetchFeedsReturn

SpecFeeds == Init /\ [][NextFeeds]_vars

\* fetchFeeds as runOnce calls it: with the enabled feeds and
\* maxConcurrency = parseInt(settings["max_concurrency"] || "6", 10) || 6,
\* for the values the setting can be stored with.
fetchFeedsOfRun ==
  /\ pool.phase = "idle"
  /\ \E n \in 0 .. MaxFeeds, stored \in SettingValues :
       pool' = PoolStart(n, ParseIntOr(stored, DefaultMaxConcurrency))
  /\ UNCHANGED <<cfg, now, pc, loc, tables, outbox, reset, hist, fb, writes, rk, call>>

NextFeedsOfRun ==
  \/ fetchFeedsOfRun
  \/ \E i \in 1 .. MaxFeeds : Settle(i)
  \/ \E i \in 1 .. MaxFeeds : Release(i)
  \/ \E i \in 1 .. MaxFeeds : Resume(i)
  \/ fetchFeedsReturn

\* Every feed request ends (it completes, fails or times out), and every
\* continuation that is ready runs.
FairFeeds ==
  /\ \A i \in 1 .. MaxFeeds : WF_vars(Settle(i)) /\ WF_vars(Release(i)) /\ WF_vars(Resume(i))
  /\ WF_vars(fetchFeedsReturn)

SpecFeedsLive == Init /\ [][NextFeedsOfRun]_vars /\ FairFeeds

\* ------------------------------------------------------------- rankItems
\* rankItems on its own, called twice at the same instant: on a list of
\* items and on that list with one more item put in at some position.
\* Titles are token sets; three of them overlap in a chain, so that a new
\* item can join a cluster or merge two.
RankTitles == {{}, {1, 2, 3}, {2, 3, 4}, {3, 4, 5}, {9}}
RankItem(tokens, dated) ==
  [content_hash |-> 0, source |-> "a.example", dated |-> dated,
   hours |-> IF dated THEN 2 ELSE 0, tokens |-> tokens, article_id |-> 0]
RankItemSet == {RankItem(t, d) : t \in RankTitles, d \in BOOLEAN}

InsertAt(items, p, x) == SubSeq(items, 1, p - 1) \o <<x>> \o SubSeq(items, p, Len(items))

\* One more item in the list the caller will pass.
RankInput ==
  /\ rk.phase \in {"idle", "input"}
  /\ \E x \in RankItemSet :
       LET items == IF rk.phase = "idle" THEN <<>> ELSE rk.items
       IN  /\ Len(items) < MaxItems
           /\ rk' = [phase |-> "input", items |-> Append(items, x)]
  /\ UNCHANGED <<cfg, now, pc, loc, tables, outbox, reset, hist, fb, writes, pool, call>>

\* rankItems(items, [], 25, 10) and rankItems(items with x at p, [], 25, 10)
RankAdd ==
  /\ rk.phase = "input"
  /\ \E x \in RankItemSet, p \in 1 .. Len(rk.items) + 1 :
       rk' = [phase |-> "ranked", items |-> rk.items, added |-> x, at |-> p,
              before |-> rankItems(rk.items, <<>>, DefaultMaxForAi, DefaultPerSourceCap),
              after |-> rankItems(InsertAt(rk.items, p, x), <<>>,
                                  DefaultMaxForAi, DefaultPerSourceCap)]
  /\ UNCHANGED <<cfg, now, pc, loc, tables, outbox, reset, hist, fb, writes, pool, call>>

\* The watchlists of the two calls compared: tickers are title tokens.
RankWatchlists == {<<>>, <<9>>, <<1, 4>>}

\* rankItems(items, w1, limit, cap) and rankItems(items, w2, limit, cap)
RankWatch ==
  /\ rk.phase = "input"
  /\ \E w1 \in RankWatchlists, w2 \in RankWatchlists,
        limit \in {2, DefaultMaxForAi}, cap \in {1, DefaultPerSourceCap} :
       rk' = [phase |-> "watched", items |-> rk.items, w1 |-> w1, w2 |-> w2,
              limit |-> limit, cap |-> cap,
              first |-> rankItems(rk.items, w1, limit, cap),
              second |-> rankItems(rk.items, w2, limit, cap)]
  /\ UNCHANGED <<cfg, now, pc, loc, tables, outbox, reset, hist, fb, writes, pool, call>>

\* rankItems on one dated item published hours before now, or after it when
\* hours is negative.
RankOne ==
  /\ rk.phase = "idle"
  /\ \E h \in (0 - MaxHours) .. MaxHours, t \in {{}, {9}} :
       LET it == [RankItem(t, TRUE) EXCEPT !.hours = h]
       IN  rk' = [phase |-> "one", item |-> it,
                  result |-> rankItems(<<it>>, <<>>, DefaultMaxForAi, DefaultPerSourceCap)]
  /\ UNCHANGED <<cfg, now, pc, loc, tables, outbox, reset, hist, fb, writes, pool, call>>

NextRank == RankInput \/ RankAdd \/ RankWatch \/ RankOne

SpecRank == Init /\ [][NextRank]_vars

\* ----------------------------------------- the selection loop of rankItems
\* rankItems on lists of items of several sources (one of them the empty
\* source, which the loop never caps), for the limits and caps runOnce can
\* pass: the limit is any integer but 0, the cap is clamped to 1 .. 50.
PickSources == {"a.example", "b.example", ""}
PickItem(src, h) ==
  [content_hash |-> 0, source |-> src, dated |-> TRUE, hours |-> h,
   tokens |-> {}, article_id |-> 0]
PickItemSet == {PickItem(src, h) : src \in PickSources, h \in {1, 2}}
PickLimits == {0 - 1, 1, 2, MaxPick, DefaultMaxForAi}
PickCaps == {1, 2, DefaultPerSourceCap}

\* One more item in the list the caller will pass.
PickInput ==
  /\ rk.phase \in {"idle", "input"}
  /\ \E x \in PickItemSet :
       LET items == IF rk.phase = "idle" THEN <<>> ELSE rk.items
       IN  /\ Len(items) < MaxPick
           /\ rk' = [phase |-> "input", items |-> Append(items, x)]
  /\ UNCHANGED <<cfg, now, pc, loc, tables, outbox, reset, hist, fb, writes, pool, call>>

\* rankItems(items, [], limit, cap)
PickCall ==
  /\ rk.phase = "input"
  /\ \E limit \in PickLimits, cap \in PickCaps :
       rk' = [phase |-> "picked", items |-> rk.items, limit |-> limit, cap |-> cap,
              result |-> rankItems(rk.items, <<>>, limit, cap)]
  /\ UNCHANGED <<cfg, now, pc, loc, tables, outbox, reset, hist, fb, writes, pool, call>>

NextPick == PickInput \/ PickCall
SpecPick == Init /\ [][NextPick]_vars

\* ------------------------------------------------- reset-seen on its own
\* The endpoint with no run in flight, on a seen set whose rows were first
\* seen at various distances from now (around the bounds of the window and
\* of the clamp), for the bodies a client can send.
SeenAges == {0, 1, 2, 12, 13, 168, 169}
SeenStates ==
  {{[content_hash |-> h, first_seen_at |-> 0 - age[h]] : h \in present} :
     present \in SUBSET (1 .. NumArticles), age \in [1 .. NumArticles -> SeenAges]}
ResetBodies ==
  {NoHours, HoursText} \cup {HoursNumber(n) : n \in {0 - 5, 0, 1, 2, 12, 168, 169, 500}}

InitReset ==
  /\ cfg \in Configs
  /\ now = 0
  /\ pc = [r \in RunIds |-> "idle"]
  /\ loc = [r \in RunIds |-> LocInit]
  /\ runs = [r \in RunIds |-> NoRun]
  /\ run_logs = [r \in RunIds |-> <<>>]
  /\ run_articles = [r \in RunIds |-> <<>>]
  /\ seen_hashes \in SeenStates
  /\ articles = {row.content_hash : row \in seen_hashes}
  /\ digests = [r \in RunIds |-> NoHtml]
  /\ market_data = [r \in RunIds |-> <<>>]
  /\ outbox = <<>>
  /\ reset = [n |-> 0, req |-> ResetIdle]
  /\ hist = [r \in RunIds |-> HistInit]
  /\ fb = BackoffStart
  /\ writes = [r \in RunIds |-> <<>>]
  /\ pool = PoolIdle
  /\ rk = RankIdle
  /\ call = CallIdle

NextReset == ResetRequest(ResetBodies) \/ ResetDelete \/ ResetCountAfter

SpecReset == InitReset /\ [][NextReset]_vars

\* --------------------------------------------------------- canonicalizeUrl
\* A URL as new URL(rawUrl) holds it. scheme "" stands for a string that
\* does not parse (new URL throws). host is a sequence of letters; query is
\* the list of name/value pairs of searchParams; hash is the fragment.
\* A list without gclid (a variant for testing the properties against).
TrackingParamsNoGclid ==
  {"utm_source", "utm_medium", "utm_campaign", "utm_term", "utm_content",
   "utm_name", "mc_cid", "mc_eid", "igshid"}

\* The parameters canonicalizeUrl deletes.
TrackingParams ==
  {"utm_source", "utm_medium", "utm_campaign", "utm_term", "utm_content",
   "utm_name", "mc_cid", "mc_eid", "gclid", "igshid"}

\* The schemes for which the URL parser treats the host as a domain (and
\* lower-cases it); for every other scheme the host is opaque and kept.
SpecialSchemes == {"http", "https", "ftp", "ws", "wss", "file"}

ToLowerChar(c) == IF c = "A" THEN "a" ELSE IF c = "B" THEN "b" ELSE c
ToUpperChar(c) == IF c = "a" THEN "A" ELSE IF c = "b" THEN "B" ELSE c
toLowerCase(s) == [i \in 1 .. Len(s) |-> ToLowerChar(s[i])]

\* new URL(rawUrl): what the parser keeps of the raw components.
ParseUrl(raw) ==
  [raw EXCEPT !.host = IF raw.scheme \in SpecialSchemes THEN toLowerCase(raw.host)
                       ELSE raw.host]

Null == [scheme |-> "null"]

\* canonicalizeUrl(rawUrl): null when the string does not parse; else the
\* tracking parameters deleted, the rest serialised, the hostname lower-cased.
canonicalizeUrl(raw) ==
  IF raw.scheme = "" THEN Null
  ELSE LET u == ParseUrl(raw)
           kept == SelectSeq(u.query, LAMBDA p : p.name \notin TrackingParams)
       IN  [url |-> [u EXCEPT !.query = kept], host |-> toLowerCase(u.host)]

Param(name, value) == [name |-> name, value |-> value]
RawUrl(scheme, host, query, hash) ==
  [scheme |-> scheme, host |-> host, path |-> "/story", query |-> query, hash |-> hash]

\* The query parameters two URLs may differ in and still be the same story.
Allowlisted ==
  {"utm_source", "utm_medium", "utm_campaign", "utm_term", "utm_content",
   "utm_name", "mc_cid", "mc_eid", "gclid", "igshid"}

\* The raw URLs a comparison starts from.
BaseQueries ==
  LET ps == {Param("id", "7"), Param("utm_source", "x"), Param("igshid", "x")}
  IN  {<<>>} \cup {<<p>> : p \in ps} \cup {<<p, q>> : p \in ps, q \in ps}
BaseUrls ==
  {RawUrl(s, <<"a", "B">>, q, h) :
     s \in {"https", "foo", ""}, q \in BaseQueries, h \in {"", "top"}}

\* Two raw URLs are taken, equal at first.
UrlStart ==
  /\ call.fn = "none"
  /\ \E u \in BaseUrls : call' = [fn |-> "canonicalizeUrl", first |-> u, second |-> u]
  /\ UNCHANGED <<cfg, now, pc, loc, tables, outbox, reset, hist, fb, writes, pool, rk>>

\* The second URL gets one more tracking parameter, at any place of its query.
AddTracking ==
  /\ call.fn = "canonicalizeUrl"
  /\ Len(call.second.query) < MaxQuery
  /\ \E k \in Allowlisted, p \in 1 .. Len(call.second.query) + 1 :
       call' = [call EXCEPT !.second.query =
                  SubSeq(@, 1, p - 1) \o <<Param(k, "x")>> \o SubSeq(@, p, Len(@))]
  /\ UNCHANGED <<cfg, now, pc, loc, tables, outbox, reset, hist, fb, writes, pool, rk>>

\* The second URL loses one of its tracking parameters.
DropTracking ==
  /\ call.fn = "canonicalizeUrl"
  /\ \E p \in 1 .. Len(call.second.query) :
       /\ call.second.query[p].name \in Allowlisted
       /\ call' = [call EXCEPT !.second.query =
                     SubSeq(@, 1, p - 1) \o SubSeq(@, p + 1, Len(@))]
  /\ UNCHANGED <<cfg, now, pc, loc, tables, outbox, reset, hist, fb, writes, pool, rk>>

\* One tracking parameter of the second URL gets another value.
SetTracking ==
  /\ call.fn = "canonicalizeUrl"
  /\ \E p \in 1 .. Len(call.second.query), v \in {"x", "y"} :
       /\ call.second.query[p].name \in Allowlisted
       /\ call.second.query[p].value # v
       /\ call' = [call EXCEPT !.second.query[p].value = v]
  /\ UNCHANGED <<cfg, now, pc, loc, tables, outbox, reset, hist, fb, writes, pool, rk>>

\* One letter of the second URL's host changes case.
FlipHostCase ==
  /\ call.fn = "canonicalizeUrl"
  /\ \E p \in 1 .. Len(call.second.host) :
       call' = [call EXCEPT !.second.host[p] =
                  IF @ = ToLowerChar(@) THEN ToUpperChar(@) ELSE ToLowerChar(@)]
  /\ UNCHANGED <<cfg, now, pc, loc, tables, outbox, reset, hist, fb, writes, pool, rk>>

NextUrl == UrlStart \/ AddTracking \/ DropTracking \/ SetTracking \/ FlipHostCase

SpecUrl == Init /\ [][NextUrl]_vars

\* ------------------------------------------------------------------ logs
\* The two places a log entry is persisted: the console, through log(), and
\* table run_logs, through appendRunLog(). A text is the sequence of its
\* maximal runs of the characters [A-Za-z0-9_-] (what lies between the runs
\* is left out): len is the length of the run, alnum the length of its
\* longest stretch of letters and digits.
Token(len, alnum) == [len |-> len, alnum |-> alnum]

\* The runs of "[REDACTED]": the word between the brackets.
RedactedText == <<Token(8, 8)>>

\* text.replace(/[A-Za-z0-9_\-]{20,}/g, "[REDACTED]")
redactSecrets(text) ==
  LET RECURSIVE Go(_)
      Go(t) == IF t = <<>> THEN <<>>
               ELSE (IF Head(t).len >= RedactMinLen THEN RedactedText ELSE <<Head(t)>>)
                    \o Go(Tail(t))
  IN  Go(text)

\* The runs explored: a short word, words just under and at the length that
\* is redacted, a run id (hex groups joined by hyphens), a content hash or
\* an API key.
LogTokens ==
  {Token(8, 8), Token(19, 19), Token(20, 20), Token(36, 12), Token(64, 64)}
LogTexts == {<<>>} \cup {<<a>> : a \in LogTokens} \cup {<<a, b>> : a \in LogTokens, b \in LogTokens}

NoSinks == [fn |-> "log", console |-> <<>>, rows |-> <<>>]
Sinks == IF call.fn = "log" THEN call ELSE NoSinks

\* log(obj): console.log(redactSecrets(JSON.stringify(obj)))
LogLine ==
  /\ call.fn \in {"none", "log"}
  /\ Len(Sinks.console) + Len(Sinks.rows) < MaxLogCalls
  /\ \E text \in LogTexts :
       call' = [Sinks EXCEPT !.console = Append(@, redactSecrets(text))]
  /\ UNCHANGED <<cfg, now, pc, loc, tables, outbox, reset, hist, fb, writes, pool, rk>>

\* appendRunLog(env, run_id, level, message, context): the row holds the
\* message and JSON.stringify(context).slice(0, 4000) as they are.
AppendRunLogRow ==
  /\ call.fn \in {"none", "log"}
  /\ Len(Sinks.console) + Len(Sinks.rows) < MaxLogCalls
  /\ \E message \in {<<Token(8, 8)>>}, context \in LogTexts :
       call' = [Sinks EXCEPT !.rows =
                  Append(@, [message |-> message, context_json |-> context])]
  /\ UNCHANGED <<cfg, now, pc, loc, tables, outbox, reset, hist, fb, writes, pool, rk>>

NextLog == LogLine \/ AppendRunLogRow

SpecLog == Init /\ [][NextLog]_vars

\* ------------------------------------------------------- table run_logs
\* The log of one run: the rows of table run_logs with its run_id, the
\* clock nowIso() reads (in milliseconds), the appendRunLog calls made so far
\* (asked: their messages in call order; refused: the positions of the calls
\* whose INSERT failed) and the last answer of getRunLogs.
NoRunLog ==
  [fn |-> "runlog", clock |-> 0, rows |-> <<>>, asked |-> <<>>, refused |-> {},
   read |-> FALSE, result |-> <<>>]
RunLog == IF call.fn = "runlog" THEN call ELSE NoRunLog

LogMessages == {"run start", "feed result"}

\* PRIMARY KEY (run_id, ts, message)
RunLogKeyTaken(rows, ts, message) ==
  \E i \in 1 .. Len(rows) : rows[i].ts = ts /\ rows[i].message = message

\* Time passes between two statements (a request to the database ends).
ClockTick ==
  /\ call.fn \in {"none", "runlog"}
  /\ RunLog.clock < MaxClock
  /\ call' = [RunLog EXCEPT !.clock = @ + 1]
  /\ UNCHANGED <<cfg, now, pc, loc, tables, outbox, reset, hist, fb, writes, pool, rk>>

\* appendRunLog: INSERT INTO run_logs(run_id, ts, ...) VALUES(?, nowIso(), ...).
\* The statement fails, and appendRunLog throws, when the key is taken; a
\* row is tagged with the position of its call.
AppendToRunLog ==
  /\ call.fn \in {"none", "runlog"}
  /\ Len(RunLog.asked) < MaxAppends
  /\ \E message \in LogMessages :
       LET l == RunLog
           k == Len(l.asked) + 1
       IN  call' = IF RunLogKeyTaken(l.rows, l.clock, message)
                   THEN [l EXCEPT !.asked = Append(@, message), !.refused = @ \cup {k}]
                   ELSE [l EXCEPT !.asked = Append(@, message),
                                  !.rows = Append(@, [ts |-> l.clock, message |-> message,
                                                      call |-> k])]
  /\ UNCHANGED <<cfg, now, pc, loc, tables, outbox, reset, hist, fb, writes, pool, rk>>

\* The orders SELECT ... ORDER BY ts may return rows in: any order of the
\* rows that is ascending in ts (rows of one ts come in an order the query
\* does not fix).
OrderedByTs(rows) ==
  {p \in [1 .. Len(rows) -> 1 .. Len(rows)] :
     /\ \A i, j \in 1 .. Len(rows) : i # j => p[i] # p[j]
     /\ \A i \in 1 .. Len(rows) - 1 : rows[p[i]].ts <= rows[p[i + 1]].ts}

\* getRunLogs(env, run_id)
GetRunLogs ==
  /\ call.fn = "runlog"
  /\ \E p \in OrderedByTs(call.rows) :
       call' = [call EXCEPT !.read = TRUE,
                            !.result = [i \in 1 .. Len(call.rows) |-> call.rows[p[i]]]]
  /\ UNCHANGED <<cfg, now, pc, loc, tables, outbox, reset, hist, fb, writes, pool, rk>>

NextRunLog == ClockTick \/ AppendToRunLog \/ GetRunLogs

SpecRunLog == Init /\ [][NextRunLog]_vars

\* ------------------------------------------------------ market calendar
\* A Date is its time value in hours since 1970-01-01T00:00Z (no caller
\* below reads minutes or seconds). Days are counted from the same epoch,
\* months of the civil calendar from 1; a month number above 12 counts on
\* into the next year.
DaysFromCivil(y, m, d) ==
  LET yy == IF m <= 2 THEN y - 1 ELSE y
      yoe == yy % 400
      doy == (153 * (IF m > 2 THEN m - 3 ELSE m + 9) + 2) \div 5 + d - 1
  IN  (yy \div 400) * 146097 + yoe * 365 + yoe \div 4 - yoe \div 100 + doy - 719468

\* The year, month and day of the month of day z.
YearOf(z) ==
  CHOOSE y \in FirstYear - 2 .. LastYear + 1 :
    DaysFromCivil(y, 1, 1) <= z /\ z < DaysFromCivil(y + 1, 1, 1)
MonthOf(z, y) ==
  CHOOSE m \in 1 .. 12 : DaysFromCivil(y, m, 1) <= z /\ z < DaysFromCivil(y, m + 1, 1)
CivilOfMonth(z, y, m) == [y |-> y, m |-> m, d |-> z - DaysFromCivil(y, m, 1) + 1]
CivilOfYear(z, y) == CivilOfMonth(z, y, MonthOf(z, y))
CivilOf(z) == CivilOfYear(z, YearOf(z))

\* CivilOf over the days a call reads (the years explored, the year before,
\* whose last day a call of the first night falls on, and a month on either
\* side), computed once.
CivilTable ==
  [z \in DaysFromCivil(FirstYear - 2, 12, 1) .. DaysFromCivil(LastYear + 1, 1, 31) |->
     CivilOf(z)]
CivilFromDays(z) == CivilTable[z]

\* 0 = Sunday .. 6 = Saturday; 1970-01-01 was a Thursday.
Weekday(z) == (z + 4) % 7

\* Date.UTC(year, month, day, hours, 0, 0): month is 0-based, and a day
\* outside the month counts on into the neighbouring one.
DateUTC(year, month, day, hours) ==
  24 * (DaysFromCivil(year, month + 1, 1) + day - 1) + hours

getUTCFullYear(t) == CivilFromDays(t \div 24).y
getUTCMonth(t) == CivilFromDays(t \div 24).m - 1
getUTCDate(t) == CivilFromDays(t \div 24).d
getUTCDay(t) == Weekday(t \div 24)

\* The n-th day on or after day first, and the last day on or before day
\* last, that falls on a weekday; the n-th and the last such day of a month.
NthFrom(first, wd, n) == first + ((wd - Weekday(first) + 7) % 7) + 7 * (n - 1)
LastUpTo(last, wd) == last - ((Weekday(last) - wd + 7) % 7)
NthDay(y, m, wd, n) == NthFrom(DaysFromCivil(y, m, 1), wd, n)
LastDay(y, m, wd) == LastUpTo(DaysFromCivil(y, m + 1, 1) - 1, wd)

\* timeZone: 'America/New_York': the hours New York is behind UTC: 4 from
\* 2:00 of the second Sunday of March to 2:00 of the first Sunday of
\* November of the year, 5 otherwise.
NyOffsetIn(y, t) ==
  IF 24 * NthDay(y, 3, 0, 2) + 7 <= t /\ t < 24 * NthDay(y, 11, 0, 1) + 6 THEN 4 ELSE 5
NyOffset(t) == NyOffsetIn(getUTCFullYear(t), t)

\* toNY(d): the Date whose UTC fields read what the clock of New York
\* shows at d.
toNY(t) == t - NyOffset(t)

\* new Date(Date.UTC(nyY, nyM, nyD, 0, 0, 0)) of the fields of s
MidnightUTC(s) == DateUTC(getUTCFullYear(s), getUTCMonth(s), getUTCDate(s), 0)

\* nyDateFromYMD(year, month, day): toNY of midday UTC of the date, and
\* toNY of midnight UTC of the calendar date that gives.
nyDateFromYMD(year, month, day) == toNY(MidnightUTC(toNY(DateUTC(year, month, day, 12))))

nthWeekdayOfMonth(year, month, weekday, n) ==
  LET first == nyDateFromYMD(year, month, 1)
      firstWd == getUTCDay(first)
      delta == (weekday - firstWd + 7) % 7
      day == 1 + delta + (n - 1) * 7
  IN  nyDateFromYMD(year, month, day)

\* lastWeekdayOfMonth after its first line
lastWeekdayBefore(year, month, weekday, last) ==
  LET lastWd == getUTCDay(last)
      delta == (lastWd - weekday + 7) % 7
      day == getUTCDate(last) - delta
  IN  nyDateFromYMD(year, month, day)

lastWeekdayOfMonth(year, month, weekday) ==
  lastWeekdayBefore(year, month, weekday, nyDateFromYMD(year, month + 1, 0))

\* observedFixed after its first line
observedFrom(y, month, day, dt) ==
  LET wd == getUTCDay(dt)
  IN  IF wd = 6 THEN nyDateFromYMD(y, month, day - 1)
      ELSE IF wd = 0 THEN nyDateFromYMD(y, month, day + 1)
      ELSE dt

\* const observedFixed = (month, day) => ..., in year y
observedFixed(y, month, day) == observedFrom(y, month, day, nyDateFromYMD(y, month, day))

\* const same = (dt) => ..., for the date y, m, d
same(y, m, d, dt) == getUTCFullYear(dt) = y /\ getUTCMonth(dt) = m /\ getUTCDate(dt) = d

\* isUsMarketHolidayNY after its first three lines
isHolidayOn(y, m, d) ==
  LET newYears == observedFixed(y, 0, 1)
      juneteenth == observedFixed(y, 5, 19)
      independence == observedFixed(y, 6, 4)
      christmas == observedFixed(y, 11, 25)
      mlk == nthWeekdayOfMonth(y, 0, 1, 3)
      presidents == nthWeekdayOfMonth(y, 1, 1, 3)
      memorial == lastWeekdayOfMonth(y, 4, 1)
      labor == nthWeekdayOfMonth(y, 8, 1, 1)
      thanksgiving == nthWeekdayOfMonth(y, 11, 4, 4)
  IN  IF \E dt \in {newYears, juneteenth, independence, christmas} : same(y, m, d, dt)
      THEN TRUE
      ELSE \E dt \in {mlk, presidents, memorial, labor, thanksgiving} : same(y, m, d, dt)

isUsMarketHolidayNY(nyDate) ==
  isHolidayOn(getUTCFullYear(nyDate), getUTCMonth(nyDate), getUTCDate(nyDate))

\* isUsMarketClosedNY after const ny = toNY(date)
isClosedOn(ny) ==
  LET weekday == getUTCDay(ny)
  IN  IF weekday = 0 \/ weekday = 6 THEN TRUE ELSE isUsMarketHolidayNY(ny)

isUsMarketClosedNY(date) == isClosedOn(toNY(date))

\* The hours of the day (UTC) the calendar is asked at: in the evening of
\* the day before in New York, and around its midday.
CallHours == {2, 17}

ClosedCall(date) == [fn |-> "closed", date |-> date, result |-> isUsMarketClosedNY(date)]

\* isUsMarketClosedNY(new Date()) on the first day of a year
ClosedFirst ==
  /\ call.fn = "none"
  /\ \E y \in FirstYear .. LastYear, h \in CallHours :
       call' = ClosedCall(DateUTC(y, 0, 1, h))
  /\ UNCHANGED <<cfg, now, pc, loc, tables, outbox, reset, hist, fb, writes, pool, rk>>

\* the same, a day later
ClosedNextDay ==
  /\ call.fn = "closed"
  /\ getUTCFullYear(call.date + 24) <= LastYear
  /\ call' = ClosedCall(call.date + 24)
  /\ UNCHANGED <<cfg, now, pc, loc, tables, outbox, reset, hist, fb, writes, pool, rk>>

NextCalendar == ClosedFirst \/ ClosedNextDay

SpecCalendar == Init /\ [][NextCalendar]_vars

\* ------------------------------------------------------------- parseFeed
\* An element of an item that holds text is <<>> when the item has no such
\* element and <<s>> when it has one with the text s (which may be empty).
\* An <item> of an RSS document: its title, link and guid.
XmlItem(title, link, guid) == [title |-> title, link |-> link, guid |-> guid]
XmlItems ==
  {XmlItem(t, l, g) : t \in {<<>>, <<"">>, <<"a">>, <<"b">>},
                      l \in {<<>>, <<"">>, <<"x">>}, g \in {<<>>, <<"g">>}}

\* The RSS documents explored: <rss><channel> with up to MaxFeedItems items.
RssDocs == UNION {[1 .. n -> XmlItems] : n \in 0 .. MaxFeedItems}

\* parser.parse(xml), then doc?.rss?.channel?.item: the parser gives the
\* children of one name as an array only when there are two or more of
\* them; one child is given as the object itself, none as undefined.
ChannelItem(doc) ==
  IF Len(doc) = 0 THEN [kind |-> "undefined"]
  ELSE IF Len(doc) = 1 THEN [kind |-> "object", value |-> doc[1]]
  ELSE [kind |-> "array", value |-> doc]

\* it?.title?.toString() || ""
TextOr(field, dflt) == IF field = <<>> THEN dflt ELSE IF field[1] = "" THEN dflt ELSE field[1]

\* The entry pushed for an item, <<>> when none is.
RssEntry(it) ==
  LET title == TextOr(it.title, "")
      link == TextOr(it.link, TextOr(it.guid, ""))
  IN  IF title # "" /\ link # "" THEN <<[title |-> title, link |-> link]>> ELSE <<>>

RECURSIVE RssEntries(_)
\* for (const it of rssItems) { ... out.push }
RssEntries(items) ==
  IF items = <<>> THEN <<>> ELSE RssEntry(Head(items)) \o RssEntries(Tail(items))

\* parseFeed(xml) of an RSS document: a document whose items are not an
\* array has no doc.feed.entry either, and gives the empty list.
parseFeedOf(rssItems) ==
  IF rssItems.kind = "array" THEN RssEntries(rssItems.value) ELSE <<>>
parseFeed(doc) == parseFeedOf(ChannelItem(doc))

ParseFeedCall ==
  /\ call.fn = "none"
  /\ \E doc \in RssDocs : call' = [fn |-> "parseFeed", doc |-> doc, result |-> parseFeed(doc)]
  /\ UNCHANGED <<cfg, now, pc, loc, tables, outbox, reset, hist, fb, writes, pool, rk>>

SpecParse == Init /\ [][ParseFeedCall]_vars

\* ----------------------------------------------------- markdownToHtmlSafe
\* A text is the sequence of its pieces: a word, or the characters of a
\* tag. The output is the sequence of the tags pushed and of the pieces of
\* the texts between them.
\* A variant that leaves the text as it is (for testing the properties
\* against).
escapeHtmlLiteNot(s) == s

\* s.replace(/&/g, "&amp;").replace(/</g, "&lt;").replace(/>/g, "&gt;")...
escapeHtmlLite(s) ==
  [i \in 1 .. Len(s) |->
     IF s[i] = "<ul>" THEN "&lt;ul&gt;"
     ELSE IF s[i] = "</ul>" THEN "&lt;/ul&gt;"
     ELSE IF s[i] = "<li>" THEN "&lt;li&gt;"
     ELSE s[i]]

\* A line of the text, by the first pattern of the loop it matches, with
\* the text the pattern captures: "SECTION n - text", "LOOKING AHEAD...",
\* "## text", "### text", "1. text", "- text", a blank line, any other.
MdTexts == {<<"w">>, <<"<ul>", "<li>", "w", "</ul>">>}
MdLine(kind, text) == [kind |-> kind, text |-> text]
MdLines ==
  {MdLine(k, t) : k \in {"section", "looking", "h2", "h3", "num", "bullet", "para"},
                  t \in MdTexts}
  \cup {MdLine("blank", <<>>)}

\* if (inList) { out.push("</ul>"); inList = false; }
CloseList(st) == IF st.inList THEN [out |-> Append(st.out, "</ul>"), inList |-> FALSE] ELSE st
\* if (!inList) { out.push("<ul>"); inList = true; }
OpenList(st) == IF ~st.inList THEN [out |-> Append(st.out, "<ul>"), inList |-> TRUE] ELSE st
\* out.push(`<tag>${...escapeHtmlLite(text)...}</tag>`); linkify and
\* inlineEmphasis put a, strong and em tags around parts of the escaped text
\* and leave the pieces explored as they are.
Push(st, open, text, close) ==
  [st EXCEPT !.out = @ \o <<open>> \o escapeHtmlLite(text) \o <<close>>]

\* The body of the loop, for one line.
MdStep(st, line) ==
  IF line.kind \in {"section", "looking", "h2"}
  THEN Push(CloseList(st), "<h2>", line.text, "</h2>")
  ELSE IF line.kind = "h3" THEN Push(CloseList(st), "<h3>", line.text, "</h3>")
  ELSE IF line.kind \in {"num", "bullet"} THEN Push(OpenList(st), "<li>", line.text, "</li>")
  ELSE IF line.kind = "blank" THEN CloseList(st)
  ELSE Push(CloseList(st), "<p>", line.text, "</p>")

RECURSIVE MdLoop(_, _)
\* for (const line of lines) { ... }
MdLoop(st, lines) ==
  IF lines = <<>> THEN st ELSE MdLoop(MdStep(st, Head(lines)), Tail(lines))

\* markdownToHtmlSafe(md): the loop, if (inList) out.push("</ul>"), and
\* the output joined.
markdownToHtmlSafe(md) == CloseList(MdLoop([out |-> <<>>, inList |-> FALSE], md)).out

\* The texts explored: up to MaxLines lines (split(/\r?\n/) gives one line
\* at least: the empty text is one blank line).
MdInputs == UNION {[1 .. n -> MdLines] : n \in 1 .. MaxLines}

MarkdownCall ==
  /\ call.fn = "none"
  /\ \E md \in MdInputs :
       call' = [fn |-> "markdownToHtmlSafe", md |-> md, result |-> markdownToHtmlSafe(md)]
  /\ UNCHANGED <<cfg, now, pc, loc, tables, outbox, reset, hist, fb, writes, pool, rk>>

SpecMarkdown == Init /\ [][MarkdownCall]_vars

\* ------------------------------------------------------------ properties
\* Helpers of the properties below.
InFlight(r) == runs[r].status = "started"
Finished(r) == pc[r] = "done"
RowsOf(rows, message) == SelectSeq(rows, LAMBDA row : row.message = message)
LogRows(r, message) == RowsOf(run_logs[r], message)
Selected(r) == {run_articles[r][k].article_id : k \in 1 .. Len(run_articles[r])}
\* The positions of run r's normalized input whose hash was in the seen set
\* when r started and has not been deleted by reset-seen since.
KnownAtStart(r) == hist[r].seenAtStart \ hist[r].resetSince
DroppedPositions(r) ==
  {i \in 1 .. Len(loc[r].normalized) :
     loc[r].normalized[i].content_hash \in KnownAtStart(r)}

\* C1: at most one pipeline run is in flight at any time: no two runs are
\* both started and not yet at a terminal status.
C1_SingleRunInFlight ==
  \A r, q \in RunIds : r # q => ~(InFlight(r) /\ InFlight(q))

\* C2 as stated: no run has a run_articles row for an article whose
\* content_hash was in the seen set when the run started, and a finished run
\* counts such an item in articles_seen and not in articles_used.
C2_NoSeenArticleSelected ==
  \A r \in RunIds :
    /\ Selected(r) \cap hist[r].seenAtStart = {}
    /\ (Finished(r) /\ ~hist[r].threw) =>
         /\ runs[r].articles_seen = Len(loc[r].normalized)
         /\ runs[r].articles_used + Cardinality(
              {i \in 1 .. Len(loc[r].normalized) :
                 loc[r].normalized[i].content_hash \in hist[r].seenAtStart})
              <= runs[r].articles_seen

\* C2 amended: no run has a run_articles row for an article whose content_hash
\* was in the seen set when the run started, unless reset-seen deleted that
\* hash while the run was in flight; a finished run counts every item dropped
\* for this reason in articles_seen and not in articles_used.
C2_NoSeenArticleSelectedUnlessReset ==
  \A r \in RunIds :
    /\ Selected(r) \cap KnownAtStart(r) = {}
    /\ (Finished(r) /\ ~hist[r].threw) =>
         /\ runs[r].articles_seen = Len(loc[r].normalized)
         /\ runs[r].articles_used + Cardinality(DroppedPositions(r))
              <= runs[r].articles_seen

\* A later run has finished whose input held an article an earlier run had
\* already put in the seen set: the article is counted as seen, not as used.
C2_Witness ==
  \E r \in RunIds :
    /\ Finished(r) /\ ~hist[r].threw
    /\ DroppedPositions(r) # {}
    /\ runs[r].articles_seen > runs[r].articles_used
    /\ Selected(r) \cap KnownAtStart(r) = {}

\* C3: every run that finishes with status success has email_sent true, an
\* AI result present and feeds_ok > 0.
C3_SuccessMeansAll ==
  \A r \in RunIds :
    (runs[r].finished /\ runs[r].status = "success") =>
      /\ runs[r].email_sent = 1
      /\ \E k \in 1 .. Len(hist[r].tried) : hist[r].tried[k].ok
      /\ runs[r].feeds_ok > 0

RateLimited == <<Resp(429, "none"), Resp(429, "none"), Resp(429, "none")>>
FirstTryText == <<Resp(200, "text")>>
Last(s) == s[Len(s)]
EmptyAnswer(t) ==
  t.requests # <<>> /\ RespOk(Last(t.requests)) /\ ~HasContent(Last(t.requests).text)

\* C5: when the primary provider answers 429 on each of its 3 attempts and
\* the secondary succeeds on its first try, the run's log holds exactly one
\* ai.failed row for the primary, with status 429, followed by exactly one
\* ai.result row, from the secondary.
C5_RateLimitedPrimaryLogged ==
  \A r \in RunIds :
    LET t == hist[r].tried
    IN  (/\ Len(t) = 2
         /\ t[1].requests = RateLimited
         /\ t[2].requests = FirstTryText /\ t[2].ok) =>
          LET failed == LogRows(r, "ai.failed")
              result == LogRows(r, "ai.result")
              ends == SelectSeq(run_logs[r],
                                LAMBDA row : row.message \in {"ai.failed", "ai.result"})
          IN  /\ Len(failed) = 1
              /\ failed[1].provider = t[1].provider
              /\ failed[1].status = 429
              /\ Len(result) = 1
              /\ result[1].provider = t[2].provider
              /\ ends = failed \o result

\* C6: for every provider a 2xx response whose text is empty or blank is a
\* failure of that provider: the attempt returns ok = false and the cascade
\* goes on to the next provider.
C6_EmptyAnswerFails ==
  \A r \in RunIds :
    LET t == hist[r].tried
    IN  \A k \in 1 .. Len(t) :
          EmptyAnswer(t[k]) =>
            /\ ~t[k].ok
            /\ (k < 3 /\ pc[r] # "summarize") => Len(t) > k

\* The order the claims expect for a primary.
ExpectedOrder(primary) ==
  IF primary = "openai" THEN <<"openai", "gemini", "anthropic">>
  ELSE <<"gemini", "openai", "anthropic">>

\* C7: the providers are tried in the configured order (the primary, the
\* other of Gemini and OpenAI, Anthropic): a provider is called only after
\* every earlier one has failed, none is called twice, and none is called
\* after the first success.
C7_CascadeOrder ==
  \A r \in RunIds :
    LET t == hist[r].tried
        order == ExpectedOrder(cfg.settings.ai_primary)
    IN  /\ Len(t) <= 3
        /\ \A k \in 1 .. Len(t) : t[k].provider = order[k]
        /\ \A j, k \in 1 .. Len(t) : j < k => ~t[j].ok /\ t[j].provider # t[k].provider
        /\ (pc[r] \notin {"idle", "fetch", "dedupe", "insert", "rank", "market",
                          "summarize", "catch", "catchlog"} /\ ~hist[r].threw) =>
             /\ Len(t) >= 1
             /\ (~t[Len(t)].ok => Len(t) = 3)

\* OpenAI is the primary and fails, Gemini fails, Anthropic answers.
C7_Witness ==
  \E r \in RunIds :
    LET t == hist[r].tried
    IN  /\ cfg.settings.ai_primary = "openai"
        /\ Len(t) = 3
        /\ <<t[1].provider, t[2].provider, t[3].provider>>
             = <<"openai", "gemini", "anthropic">>
        /\ t[1].requests # <<>> /\ t[2].requests # <<>>
        /\ t[3].ok

\* The label a provider's result carries.
LabelOf(p) ==
  IF p = "gemini" THEN "Gemini" ELSE IF p = "openai" THEN "OpenAI" ELSE "Anthropic"

\* C8: if the first N providers fail and the next succeeds, the run's
\* run_articles rows are those written before the cascade began, the saved
\* digest is the succeeding provider's rendered output, and the label logged
\* for the run names that provider.
C8_CascadeLeavesSelection ==
  \A r \in RunIds :
    LET t == hist[r].tried
    IN  (Len(t) >= 1 /\ t[Len(t)].ok) =>
          LET p == t[Len(t)].provider
              text == Last(t[Len(t)].requests).text
              label == LogRows(r, "ai summary")
          IN  /\ run_articles[r] = hist[r].rowsAtAi
              /\ pc[r] \in {"finish", "finishlog", "done"} =>
                   /\ digests[r] = AiHtml(p, text)
                   /\ Len(label) = 1
                   /\ label[1].provider = LabelOf(p)

\* Two providers failed, the third answered, and the run has finished with
\* articles selected.
C8_Witness ==
  \E r \in RunIds :
    LET t == hist[r].tried
    IN  /\ Finished(r) /\ ~hist[r].threw
        /\ Len(t) = 3 /\ t[3].ok
        /\ run_articles[r] # <<>>
        /\ digests[r].provider = "anthropic"

\* C9: every provider attempt that fails appends exactly one ai.failed row
\* before the next provider is tried, and a successful attempt appends
\* exactly one ai.result row naming the provider that succeeded.
C9_OneRowPerAttempt ==
  \A r \in RunIds :
    LET t == hist[r].tried
    IN  \A k \in 1 .. Len(t) :
          LET failed == RowsOf(t[k].rows, "ai.failed")
              result == RowsOf(t[k].rows, "ai.result")
          IN  IF t[k].ok
              THEN Len(result) = 1 /\ result[1].provider = t[k].provider
                   /\ Len(failed) = 0
              ELSE Len(failed) = 1 /\ failed[1].provider = t[k].provider
                   /\ Len(result) = 0

\* Whether a response asks for nothing more: any 4xx but 429.
ClientError(r) ==
  r.kind = "resp" /\ r.status >= 400 /\ r.status <= 499 /\ r.status # 429

\* C10: one fetchWithBackoff call issues at most 3 requests; a further
\* request follows only a network error or a response with status 429 or
\* >= 500; a response with any other 4xx status ends the call with that
\* request and is what the call returns.
C10_BoundedRetry ==
  /\ Len(fb.issued) <= 3
  /\ \A k \in 1 .. Len(fb.issued) - 1 :
       \/ fb.issued[k].kind = "neterr"
       \/ fb.issued[k].status = 429
       \/ fb.issued[k].status >= 500
  /\ \A k \in 1 .. Len(fb.issued) :
       ClientError(fb.issued[k]) =>
         /\ k = Len(fb.issued)
         /\ fb.out = "returned"
         /\ fb.resp = fb.issued[k]
  /\ (fb.out = "running" /\ fb.issued # <<>>) => Len(fb.issued) < 3

\* A 404 on the third request, after a network error and a 429.
C10_Witness ==
  /\ Len(fb.issued) = 3
  /\ fb.issued[1].kind = "neterr"
  /\ fb.issued[2].status = 429
  /\ fb.issued[3].status = 404
  /\ fb.out = "returned"

\* Whether run r has called every provider and each has failed.
AllProvidersFailed(r) ==
  /\ Len(hist[r].tried) = 3
  /\ \A k \in 1 .. 3 : ~hist[r].tried[k].ok
PastDigest(r) == pc[r] \in {"finish", "finishlog", "done"} /\ ~hist[r].threw

\* C11: if every provider fails, a digest row is still persisted for the run,
\* and it holds one <li> for each selected article, in rank order, up to 12.
C11_FallbackDigest ==
  \A r \in RunIds :
    (AllProvidersFailed(r) /\ PastDigest(r)) =>
      /\ digests[r].kind = "headlines"
      /\ digests[r].items =
           [i \in 1 .. Min(Len(run_articles[r]), 12) |-> run_articles[r][i].article_id]

\* A run with more than 12 selected articles whose providers all failed: its
\* digest holds 12 headlines.
C11_Witness ==
  \E r \in RunIds :
    /\ AllProvidersFailed(r) /\ Finished(r) /\ ~hist[r].threw
    /\ Len(run_articles[r]) > 12
    /\ Len(digests[r].items) = 12

\* C12: if every provider fails, the run ends with status partial, not
\* failed, and the provider label recorded for it is "headlines-only".
C12_AllFailedIsPartial ==
  \A r \in RunIds :
    (AllProvidersFailed(r) /\ runs[r].finished /\ ~hist[r].threw) =>
      /\ runs[r].status = "partial"
      /\ Len(LogRows(r, "ai summary")) = 1
      /\ LogRows(r, "ai summary")[1].provider = "headlines-only"

\* C13: a failure of the email transport is logged and never keeps the
\* digest from being persisted: a run that is past the email step without
\* an exception has its digest row, whatever the email outcome.
C13_DigestDespiteEmail ==
  \A r \in RunIds :
    PastDigest(r) =>
      /\ digests[r] # NoHtml
      /\ digests[r] = loc[r].summaryHtml
      /\ ~loc[r].emailOk =>
           /\ Len(LogRows(r, "email send failed")) = 1
           /\ Len(LogRows(r, "email sent")) = 0

\* The mail key is set, the transport refused or dropped the request, and
\* the finished run has its digest.
C13_Witness ==
  \E r \in RunIds :
    /\ Finished(r) /\ ~hist[r].threw
    /\ cfg.env.RESEND_API_KEY /\ cfg.settings.recipients > 0
    /\ ~loc[r].emailOk
    /\ digests[r] # NoHtml
    /\ Len(LogRows(r, "email send failed")) = 1

\* The positions of the writes of a run to a table, for an id.
WritesTo(r, table, id) ==
  {k \in 1 .. Len(writes[r]) : writes[r][k].table = table /\ writes[r][k].id = id}

\* C14: the runs row with status started is written before any run_logs
\* row of the run, and for every fresh item the seen-hash insert comes
\* before the article insert, which comes before the run_articles insert.
C14_InsertOrder ==
  \A r \in RunIds :
    /\ writes[r] # <<>> => writes[r][1] = W("runs", 0, "started")
    /\ run_logs[r] # <<>> => runs[r] # NoRun
    /\ \A k \in 1 .. Len(writes[r]) :
         LET w == writes[r][k]
         IN  /\ w.table = "articles" =>
                  \E j \in WritesTo(r, "seen_hashes", w.id) : j < k
             /\ w.table = "run_articles" =>
                  \E j \in WritesTo(r, "articles", w.id) : j < k

\* A finished run that wrote log rows and selected a fresh article.
C14_Witness ==
  \E r \in RunIds :
    /\ Finished(r)
    /\ \E k \in 1 .. Len(writes[r]) : writes[r][k].table = "run_logs"
    /\ \E h \in 1 .. NumArticles :
         /\ WritesTo(r, "seen_hashes", h) # {}
         /\ WritesTo(r, "articles", h) # {}
         /\ WritesTo(r, "run_articles", h) # {}

\* C15: the write that moves the runs row from started to its final status
\* is the last write of the run: no run_logs, digests, run_articles or
\* market_data row is written after it, on the normal path and on the
\* exception path.
C15_StatusWrittenLast ==
  \A r \in RunIds :
    \A k \in 1 .. Len(writes[r]) :
      (writes[r][k].table = "runs" /\ writes[r][k].note # "started") =>
        k = Len(writes[r])

\* The tasks of the call that stand at a given point.
TasksAt(where) == {i \in DOMAIN pool.task : pool.task[i] = where}

\* C16: fetchFeeds returns one result per input feed URL, in input order,
\* each either ok with its items or not ok with an error; the result of a
\* feed is the one its own request gives, whatever the other feeds did, and
\* a call that has not returned is never left without a step to take.
C16_OneResultPerFeed ==
  /\ pool.phase = "returned" =>
       /\ Len(pool.results) = Len(pool.feedUrls)
       /\ \A i \in 1 .. Len(pool.feedUrls) :
            LET res == pool.results[i]
            IN  /\ res.feedUrl = pool.feedUrls[i]
                /\ res = fetchOne(pool.feedUrls[i], pool.outcome[i])
                /\ res.ok <=> pool.outcome[i] = "200"
                /\ res.ok => res.error = "none" /\ res.items = FeedItems(res.feedUrl)
                /\ ~res.ok => res.error # "none" /\ res.items = <<>>
  /\ pool.phase = "running" =>
       \/ TasksAt("fetching") \cup TasksAt("settled") \cup TasksAt("woken") # {}
       \/ \A i \in DOMAIN pool.task : pool.task[i] = "done"

\* Three feeds fetched two at a time: the first fails, the second times
\* out, the third answers, they settle out of input order, and the call
\* has returned.
C16_Witness ==
  /\ pool.phase = "returned"
  /\ Len(pool.feedUrls) = 3
  /\ pool.order # <<1, 2, 3>>
  /\ pool.outcome[1] = "503" /\ pool.outcome[2] = "timeout" /\ pool.outcome[3] = "200"
  /\ pool.results[3].ok

\* C17: during fetchFeeds the number of feed fetches started and not yet
\* settled is at most maxConcurrency, for any number of feeds and any order
\* of completion.
C17_BoundedInFlight ==
  pool.phase = "running" =>
    /\ Cardinality(TasksAt("fetching")) <= pool.concurrency
    /\ pool.active + Cardinality(TasksAt("woken")) <= pool.concurrency
    /\ pool.active = Cardinality(TasksAt("fetching") \cup TasksAt("settled"))

\* More feeds than the bound: the bound is reached while a feed waits.
C17_Witness ==
  /\ pool.phase = "running"
  /\ Len(pool.feedUrls) > pool.concurrency
  /\ Cardinality(TasksAt("fetching")) = pool.concurrency
  /\ TasksAt("queued") # {}
  /\ TasksAt("done") # {}

\* The value a numeric setting is configured to: the stored number, or the
\* documented default when the setting has no row.
Configured(v, dflt) == IF v = <<>> THEN dflt ELSE v[1]

\* The run_articles rows of run r whose article has source s.
RowsOfSource(r, s) ==
  {k \in 1 .. Len(run_articles[r]) : Source(run_articles[r][k].article_id) = s}

\* C18: for every run and every source s, the number of run_articles rows
\* whose article has source s is at most the configured per_source_cap
\* (stated here for the stored values that are not negative).
C18_PerSourceCap ==
  \A r \in RunIds :
    LET cap == Configured(cfg.settings.per_source_cap, DefaultPerSourceCap)
    IN  cap >= 0 =>
          \A i \in 1 .. BigFeed : Cardinality(RowsOfSource(r, Source(i))) <= cap

\* C19: for every run, the number of run_articles rows is at most the
\* configured max_articles_for_ai (stated here for the stored values that
\* are not negative).
C19_AiBudget ==
  \A r \in RunIds :
    LET budget == Configured(cfg.settings.max_articles_for_ai, DefaultMaxForAi)
    IN  budget >= 0 => Len(run_articles[r]) <= budget

\* The score rankItems gave an item in a result. Equal items of one input
\* list get equal scores, so the choice among them is immaterial.
ScoreIn(result, it) ==
  LET k == CHOOSE k \in 1 .. Len(result) : result[k].item = it IN result[k].score
Returned(result, it) == \E k \in 1 .. Len(result) : result[k].item = it

\* The added item is similar to an item of the list: it joins its cluster.
JoinsCluster ==
  \E i \in 1 .. Len(rk.items) : Similar(rk.added.tokens, rk.items[i].tokens)

\* C20: in rankItems, adding one more item to the input list, when that
\* item joins an existing topic cluster, never lowers the score of any
\* item that was already in the list.
C20_ClusterMonotone ==
  (rk.phase = "ranked" /\ JoinsCluster) =>
    \A i \in 1 .. Len(rk.items) :
      /\ Returned(rk.before, rk.items[i])
      /\ Returned(rk.after, rk.items[i])
      /\ ScoreIn(rk.after, rk.items[i]) >= ScoreIn(rk.before, rk.items[i])

\* The added item joins two clusters at once: the two items it is similar
\* to, which were not similar to each other, each gain 12.
C20_Witness ==
  /\ rk.phase = "ranked"
  /\ JoinsCluster
  /\ \E i, j \in 1 .. Len(rk.items) :
       /\ ~Similar(rk.items[i].tokens, rk.items[j].tokens)
       /\ ScoreIn(rk.after, rk.items[i]) = ScoreIn(rk.before, rk.items[i]) + 12
       /\ ScoreIn(rk.after, rk.items[j]) = ScoreIn(rk.before, rk.items[j]) + 12

C22_RecencyFormula ==
  (rk.phase = "one" /\ rk.item.dated) =>
    LET h == Max(0, rk.item.hours)
        recency == rk.result[1].score
    IN  /\ recency = 2 * Max(0, 12 - h) + Max(0, 24 - h)
        /\ recency <= 48

\* C23: two URLs that differ only in the presence or the values of the
\* tracking query parameters, or in the letter case of the host, get the
\* same canonical URL and host from canonicalizeUrl.
C23_CanonicalStable ==
  call.fn = "canonicalizeUrl" =>
    canonicalizeUrl(call.first) = canonicalizeUrl(call.second)

\* C23, for the URLs whose scheme makes the host a domain (http, https, ftp,
\* ws, wss, file) and for the strings that do not parse: such URLs get the
\* same canonical URL and host; for every scheme they get the same host.
C23_CanonicalStableSpecial ==
  call.fn = "canonicalizeUrl" =>
    /\ call.first.scheme \in SpecialSchemes \cup {""} =>
         canonicalizeUrl(call.first) = canonicalizeUrl(call.second)
    /\ call.first.scheme # "" =>
         canonicalizeUrl(call.first).host = canonicalizeUrl(call.second).host

\* An https URL and a variant of it with another host case, one tracking
\* parameter more and one with another value.
C23_Witness ==
  /\ call.fn = "canonicalizeUrl"
  /\ call.first.scheme = "https"
  /\ call.first.host # call.second.host
  /\ Len(call.second.query) > Len(call.first.query)
  /\ \E p \in 1 .. Len(call.second.query) :
       call.second.query[p] = Param("utm_source", "y")
  /\ \E p \in 1 .. Len(call.second.query) : call.second.query[p].name = "gclid"
  /\ canonicalizeUrl(call.first) = canonicalizeUrl(call.second)

\* A reset-seen request has been answered.
ResetDone == reset.n > 0 /\ reset.req.pc = "idle"

\* C24: after reset-seen(h) completes with no run executing concurrently,
\* the seen set has no row first seen within the last h hours, and every
\* row first seen before the window is still there, unchanged. h is the
\* window the endpoint reports.
C24_ResetWindow ==
  (ResetDone /\ reset.req.hours # NaN) =>
    LET h == reset.req.hours[1]
    IN  /\ \A row \in seen_hashes : row.first_seen_at < now - h
        /\ \A row \in reset.req.was : row.first_seen_at < now - h => row \in seen_hashes
        /\ seen_hashes \subseteq reset.req.was
        /\ reset.req.deleted = Cardinality(reset.req.was \ seen_hashes)
        /\ reset.req.after = 0

\* A request for 12 hours on a seen set with a row exactly 12 hours old,
\* which is deleted, and a row 13 hours old, which is kept.
C24_Witness ==
  /\ ResetDone
  /\ reset.req.asked = HoursNumber(12)
  /\ \E row \in reset.req.was : row.first_seen_at = now - 12 /\ row \notin seen_hashes
  /\ \E row \in seen_hashes : row.first_seen_at = now - 13

\* C25: for every request body the reset-seen endpoint operates on and
\* reports an integer window h with 1 <= h <= 168: values out of range are
\* clamped, a missing value is 12, and no body, a non-numeric hours value
\* included, makes it use a window outside that range.
C25_WindowInRange ==
  reset.n > 0 =>
    /\ reset.req.hours # NaN
    /\ reset.req.hours[1] >= 1
    /\ reset.req.hours[1] <= 168
    /\ reset.req.asked = NoHours => reset.req.hours = Num(12)

\* Run 2 was a re-run: it started after run 1 had ended, no reset-seen was
\* served in between, and its feeds returned what they returned to run 1.
SameFeedsAgain ==
  /\ Finished(1) /\ Finished(2)
  /\ reset.n = 0
  /\ hist[2].fetched = hist[1].fetched

NothingSelected(r) ==
  /\ loc[r].newCount = 0
  /\ runs[r].articles_used = 0
  /\ run_articles[r] = <<>>

ReachedRanking(r) == LogRows(r, "articles ranked") # <<>>

HasLongToken(text) == \E k \in 1 .. Len(text) : text[k].alnum >= 20

\* C27: no persisted log message or log context, in run_logs rows as well
\* as in console lines, holds a token of 20 or more alphanumeric
\* characters.
C27_LogsRedacted ==
  call.fn = "log" =>
    /\ \A k \in 1 .. Len(call.console) : ~HasLongToken(call.console[k])
    /\ \A k \in 1 .. Len(call.rows) :
         /\ ~HasLongToken(call.rows[k].message)
         /\ ~HasLongToken(call.rows[k].context_json)

\* The lookup of a symbol fails, as C28 lists the failures: a network
\* error, a status that is not 2xx, or a price, change or percent change
\* that is missing or not finite.
LookupFails(a) ==
  \/ a.kind = "neterr"
  \/ ~a.ok
  \/ \E x \in {a.c, a.d, a.dp} : x = NaN \/ x = Infinity

\* The quote lookups of run r have been made.
QuotesFetched(r) == hist[r].quotes # <<>>

\* C28: a quote lookup that fails leaves out that symbol alone: the quotes
\* returned are those of the symbols looked up whose own lookup did not fail,
\* in the order looked up, they are the rows saved, and the run goes on to
\* summarization with them, an empty list included.
C28_FailedQuoteOmitted ==
  \A r \in RunIds :
    QuotesFetched(r) =>
      LET answer == hist[r].quotes[1]
          unique == UniqueSymbols(cfg.settings.watchlist)
      IN  /\ loc[r].marketData =
               SelectSeq(unique, LAMBDA sym : sym \in DOMAIN answer /\ ~LookupFails(answer[sym]))
          /\ market_data[r] = loc[r].marketData
          /\ pc[r] \notin {"market", "catch", "catchlog"}
          /\ ~hist[r].threw
          /\ Len(LogRows(r, "attempting ai analysis")) = 1

\* Two symbols were looked up, the lookup of the first failed and the quote
\* of the second was returned and saved, and the run has been summarized.
C28_Witness ==
  \E r \in RunIds :
    /\ QuotesFetched(r)
    /\ LET answer == hist[r].quotes[1]
       IN  /\ DOMAIN answer = {"SPY", "QQQ"}
           /\ LookupFails(answer["SPY"])
           /\ ~LookupFails(answer["QQQ"])
    /\ market_data[r] = <<"QQQ">>
    /\ Finished(r)

\* C29: every appendRunLog call of a run adds one row, none is refused
\* because the run already has a row with the same message and timestamp,
\* and getRunLogs returns the rows of the calls made so far in call order.
C29_AppendOnly ==
  call.fn = "runlog" =>
    /\ call.refused = {}
    /\ Len(call.rows) = Len(call.asked)
    /\ call.read =>
         \A i \in 1 .. Len(call.result) - 1 : call.result[i].call < call.result[i + 1].call

\* The holiday table of C30, as days: a date of the table that falls on a
\* Saturday is kept on the Friday before, one on a Sunday on the Monday after.
ObservedDay(z) == IF Weekday(z) = 6 THEN z - 1 ELSE IF Weekday(z) = 0 THEN z + 1 ELSE z
Observed(y, m, d) == ObservedDay(DaysFromCivil(y, m, d))
TableHolidays(y) ==
  {Observed(y, 1, 1), Observed(y, 6, 19), Observed(y, 7, 4), Observed(y, 12, 25),
   NthDay(y, 1, 1, 3), NthDay(y, 2, 1, 3), LastDay(y, 5, 1), NthDay(y, 9, 1, 1),
   NthDay(y, 11, 4, 4)}
TableClosed(z) ==
  \/ Weekday(z) \in {0, 6}
  \/ \E y \in {CivilFromDays(z).y, CivilFromDays(z).y + 1} : z \in TableHolidays(y)

\* The calendar date of New York at an instant, as a day.
NyDay(t) == (t - NyOffset(t)) \div 24

\* C30: isUsMarketClosedNY answers true exactly on the dates of New York
\* that are a Saturday, a Sunday or a holiday of the table.
C30_ClosedExactlyOnTable ==
  call.fn = "closed" => (call.result <=> TableClosed(NyDay(call.date)))

\* An item has a non-empty title and a non-empty link, or a non-empty guid
\* when it has no link (an empty link element counting as none).
HasTitleAndLink(it) ==
  /\ it.title \notin {<<>>, <<"">>}
  /\ IF it.link \in {<<>>, <<"">>} THEN it.guid \notin {<<>>, <<"">>} ELSE TRUE

\* C31: for an RSS document with one item or more, parseFeed returns one
\* entry for each item that has a title and a link (or guid), in document
\* order, and none for the others.
C31_EntryPerItem ==
  (call.fn = "parseFeed" /\ Len(call.doc) >= 1) =>
    LET kept == SelectSeq(call.doc, HasTitleAndLink)
    IN  /\ Len(call.result) = Len(kept)
        /\ \A i \in 1 .. Len(kept) : call.result[i].title = kept[i].title[1]

\* The rows keyed by the id of run r in runs, run_articles, run_logs,
\* market_data and digests.
RunRows(r) == <<runs[r], run_articles[r], run_logs[r], market_data[r], digests[r]>>

\* C32: a run writes only rows keyed by its own run_id: once a run has
\* ended, no step of another run (or of reset-seen) changes its rows in
\* runs, run_articles, run_logs, market_data and digests.
C32_EarlierRunsUntouched ==
  [][\A r \in RunIds : Finished(r) => RunRows(r)' = RunRows(r)]_vars

\* The first run has ended with rows of its own, and the second, started
\* when the hashes of the first were in the seen set, has ended having
\* selected again an article that reset-seen removed.
C32_Witness ==
  /\ Finished(1) /\ Finished(2)
  /\ run_articles[1] # <<>> /\ digests[1] # NoHtml
  /\ Selected(1) \cap Selected(2) \cap hist[2].seenAtStart \cap hist[2].resetSince # {}

\* The number of <ul> open after the first k pieces of an output.
OpenLists(out, k) ==
  Cardinality({i \in 1 .. k : out[i] = "<ul>"}) - Cardinality({i \in 1 .. k : out[i] = "</ul>"})

\* C33: in the output of markdownToHtmlSafe list tags are balanced and never
\* nested: a <ul> is opened only when none is open and closed only when one
\* is, every <li> lies inside a <ul>, every heading and paragraph outside, and
\* no <ul> is open at the end.
C33_ListsBalanced ==
  call.fn = "markdownToHtmlSafe" =>
    LET out == call.result
    IN  /\ \A k \in 1 .. Len(out) :
             /\ OpenLists(out, k) \in {0, 1}
             /\ out[k] = "<ul>" => OpenLists(out, k - 1) = 0
             /\ out[k] \in {"<li>", "</li>"} => OpenLists(out, k) = 1
             /\ out[k] \in {"<h2>", "</h2>", "<h3>", "</h3>", "<p>", "</p>"} =>
                  OpenLists(out, k) = 0
        /\ OpenLists(out, Len(out)) = 0

\* A list item whose text holds list tags, then a paragraph: the list was
\* opened once and closed before the paragraph.
C33_Witness ==
  /\ call.fn = "markdownToHtmlSafe"
  /\ Len(call.md) = 3
  /\ call.md[1].kind = "bullet" /\ "<ul>" \in Range(call.md[1].text)
  /\ call.md[2].kind = "num"
  /\ call.md[3].kind = "para"
  /\ Cardinality({i \in 1 .. Len(call.result) : call.result[i] = "</ul>"}) = 1

\* C34: for every stored max_concurrency and every list of enabled feeds,
\* if every feed request ends, fetchFeeds returns (and the run can go on to
\* its terminal status).
C34_FetchFeedsReturns == (pool.phase = "running") ~> (pool.phase = "returned")

\* The mail transport accepted a send request of run r.
MailAccepted(r) == \E k \in 1 .. Len(outbox) : outbox[k].run_id = r

\* C35: a finished run records email_sent = 1 only if the mail transport
\* accepted a send request during the run: a run with no recipient does not
\* record it, and does not end as success without an email.
C35_EmailSentMeansSent ==
  \A r \in RunIds :
    runs[r].finished =>
      /\ runs[r].email_sent = 1 => MailAccepted(r)
      /\ runs[r].status = "success" => MailAccepted(r)

\* The articles that were fresh in run q (their hashes inserted by it) and
\* that rankItems left out, once q has ranked.
Leftover(q) ==
  IF pc[q] \in {"idle", "fetch", "dedupe", "insert", "rank"} THEN {}
  ELSE {loc[q].freshArticles[i].article_id : i \in 1 .. Len(loc[q].freshArticles)}
       \ Selected(q)

\* reset-seen has deleted no row so far.
NothingReset == reset.n = 0 \/ (reset.n = 1 /\ reset.req.pc = "delete")

Considered ==
  SortByScore([i \in 1 .. Len(rk.items) |->
                 [item |-> rk.items[i], score |-> Score(rk.items, i)]])

\* The entries of list at the positions of set S, in order.
RECURSIVE AtPositions(_, _, _)
AtPositions(list, S, p) ==
  IF p > Len(list) THEN <<>>
  ELSE (IF p \in S THEN <<list[p]>> ELSE <<>>) \o AtPositions(list, S, p + 1)

\* The number of entries of source src in a list of scored items.
OfSource(list, src) == Cardinality({k \in 1 .. Len(list) : list[k].item.source = src})

\* Taking the positions S of the considered list is greedy: every position
\* left out had the limit reached before it, or its source at the cap.
GreedyChoice(list, S, limit, cap) ==
  \A p \in (1 .. Len(list)) \ S :
    LET before == AtPositions(SubSeq(list, 1, p - 1), S, 1)
    IN  \/ Len(before) >= limit
        \/ OfSource(before, list[p].item.source) >= cap

\* C37: the result of rankItems is a greedy and complete choice from the
\* considered list: an item is left out only if the limit was already
\* reached when it was considered or its source already had per-source-cap
\* selected items; and when fewer than limit items are returned, every item
\* left out has a source with exactly per-source-cap items in the result.
C37_GreedyAndComplete ==
  rk.phase = "picked" =>
    \E S \in SUBSET (1 .. Len(rk.items)) :
      /\ rk.result = AtPositions(Considered, S, 1)
      /\ GreedyChoice(Considered, S, rk.limit, rk.cap)
      /\ Len(rk.result) < rk.limit =>
            \A p \in (1 .. Len(rk.items)) \ S :
              OfSource(rk.result, Considered[p].item.source) = rk.cap

\* A call that returned fewer than limit items and left one out, while an
\* item considered after the one left out was taken.
C37_Witness ==
  /\ rk.phase = "picked"
  /\ Len(rk.result) < rk.limit
  /\ Len(rk.result) < Len(rk.items)
  /\ \E p \in 1 .. Len(rk.items) - 1 :
       /\ OfSource(rk.result, Considered[p].item.source) = rk.cap
       /\ OfSource(SubSeq(Considered, 1, p), Considered[p].item.source) > rk.cap
       /\ Considered[Len(rk.items)].item.source # Considered[p].item.source
       /\ rk.result[Len(rk.result)] = Considered[Len(rk.items)]

\* C38: the counts a reset-seen request answers with satisfy deleted = before
\* and after = 0 (hence before - deleted = after), also when a pipeline run
\* inserts seen hashes between the count, the delete and the second count.
C38_ResetCountsAgree ==
  ResetDone => /\ reset.req.deleted = reset.req.before
               /\ reset.req.after = 0
               /\ reset.req.before - reset.req.deleted = reset.req.after

\* C39: every run that finishes without an exception records counters with
\* feeds_ok <= feeds_total and
\* articles_used <= new_articles <= articles_seen <= max_articles_considered
\* (the configured value, 60 when none is stored), and the number of
\* run_articles rows written for it is at most articles_used.
C39_CountersOrdered ==
  \A r \in RunIds :
    (Finished(r) /\ ~hist[r].threw) =>
      /\ runs[r].feeds_ok <= runs[r].feeds_total
      /\ runs[r].articles_used <= loc[r].newCount
      /\ loc[r].newCount <= runs[r].articles_seen
      /\ runs[r].articles_seen
           <= Configured(cfg.settings.max_articles_considered, DefaultMaxConsidered)
      /\ Len(run_articles[r]) <= runs[r].articles_used

====
